---- MODULE Spec2Model ----
(***************************************************************************)
(* State-machine model of BLE_protocols: the production / protocol        *)
(* framework (production.cpp: rule store, event matcher, run_production;  *)
(* protocol.h: the PROTOCOL and STEP_FUNCTION macros; protocol.cpp:       *)
(* run_current_protocol, the event entry point) and the application built *)
(* on it (the sketch: setup, loop, main_steps, directed_scan_protocol,    *)
(* gatt_walk_protocol; addrs.cpp, db.cpp, get_data.cpp, procedures.cpp).  *)
(*                                                                         *)
(* The statics of the C++ code are the variables.  Every C function is an *)
(* operator from a record of the statics (one field per static) to the    *)
(* record it leaves, so that a handler which calls several functions is   *)
(* one action.  The debug printer (dbprint.cpp) only prints and is left   *)
(* out, as are the bytes of a record that no branch of the code reads     *)
(* (uuid, characteristic value, advertising data).                        *)
(***************************************************************************)
EXTENDS Integers, Sequences, FiniteSets, TLC

VARIABLES
  action,                  \* pending perform (static action_ptr_t action)
  until_condition,         \* static until_ptr_t until_condition
  until_check,             \* static check_t until_check
  until_check_event,       \* static uint16_t until_check_event
  production_start,        \* static unsigned long production_start
  timeout_milliseconds,    \* static unsigned long timeout_milliseconds
  millis,                  \* the value millis() returns: milliseconds since the board started
  rule_matched,            \* static bool rule_matched
  rules,                   \* rules[0 .. num_rules-1]
  exclusive_rules,         \* exclusive_rules[0 .. num_exclusive_rules-1]
  global_rules,            \* global_rules[0 .. num_global_rules-1]
  current_rule,            \* iteration cursors
  current_exclusive_rule,
  current_global_rule,
  current_protocol,        \* static protocol_ptr_t current_protocol
  state,                   \* static uint16_t state of the protocol function
  production_fired,        \* history: a normal/exclusive rule fired since the production began
  num_added,               \* history: number of rules registered so far
  undefined,               \* the program has executed undefined behaviour that the
                           \* model does not follow: its statics may hold anything
  hung,                    \* the program is in a loop that never exits: no call is
                           \* made and no event is dispatched any more
  main_steps_state,        \* static uint16_t state of main_steps
  observation_protocol_state,     \* static uint16_t state of observation_protocol
  directed_scan_protocol_state,   \* static uint16_t state of directed_scan_protocol
  gatt_walk_protocol_state,       \* static uint16_t state of gatt_walk_protocol
  device_index,            \* static int device_index of gatt_walk_protocol
  service_index,           \* static int service_index of gatt_walk_protocol
  context,                 \* static attribute_context_t context of gatt_walk_protocol
  addr2walk,               \* tBDAddr addr2walk
  connection_handle,       \* uint16_t connection_handle
  num_addrs,               \* static uint8_t num_addrs
  addr_list,               \* static tBDAddr addr_list[MAX_ADDRS]: the entries written so
                           \* far; the entries behind them hold zeros
  connectables,            \* static int connectables[MAX_ADDRS], likewise
  public_addrs,            \* static int public_addrs[MAX_ADDRS], likewise
  next_addr,               \* static uint8_t next_addr
  num_records,             \* static int num_records
  device_db,               \* static db_record_t device_db[MAX_RECORDS]: the records
                           \* written so far; the records behind them hold zeros
  pc,                      \* where the sketch is: before setup(), or in loop() before
                           \* main_steps() or before HCI_Process()
  step_log,                \* history: the steps the calls ran, in order, each with
                           \* whether it ran to its end
  walk_call,               \* history: the last call of gatt_walk_protocol, with the
                           \* statics it found
  walk_runs,               \* history: runs of the characteristic-discovery step since
                           \* the device was added
  add_call,                \* history: the add_addr call of the last event, with the
                           \* list it found
  body_call,               \* history: the call of the protocol function made by the last
                           \* operation: the state it was entered with, the steps whose
                           \* code ran, the performs it invoked and what it returned
                           \* (NoCall when the last operation did not call it)
  rp                       \* history: the last run_production call, with its packet, its
                           \* result, the rules it fired and the until, the pending
                           \* perform, the protocol and the step it was entered with
                           \* (NoCall when the last operation was not an event dispatch;
                           \* after clear_current_protocol, what that call found)

\* the statics of the production engine and of the protocol function
enginestatics == <<action, until_condition, until_check, until_check_event,
                   production_start, timeout_milliseconds, millis, rule_matched,
                   rules, exclusive_rules, global_rules, current_rule, current_exclusive_rule,
                   current_global_rule, current_protocol, state>>

\* the statics of the application
appstatics == <<undefined, hung, main_steps_state, observation_protocol_state,
                directed_scan_protocol_state,
                gatt_walk_protocol_state, device_index, service_index, context, addr2walk,
                connection_handle, num_addrs, addr_list, connectables, public_addrs,
                next_addr, num_records, device_db>>

\* the position of the sketch and the history of the application
apphistory == <<pc, step_log, walk_call, walk_runs, add_call>>

vars == <<enginestatics, appstatics, production_fired, num_added, body_call, rp, apphistory>>

-----------------------------------------------------------------------------
(* Program constants *)

NULL == "NULL"

MAX_RULES == 20

\* transport packet type and event codes of the STBLE event ABI
HCI_EVENT_PKT == 4
EVT_LE_META_EVENT == 62
EVT_VENDOR == 255
EVT_BLUE_HAL_INITIALIZED == 1
EVT_BLUE_GAP_PROCEDURE_COMPLETE == 1031
EVT_DISCONN_COMPLETE == 5
EVT_LE_CONN_COMPLETE == 1
EVT_BLUE_L2CAP_CONN_UPD_REQ == 2050
EVT_BLUE_ATT_READ_BY_TYPE_RESP == 3078
EVT_BLUE_ATT_READ_BY_GROUP_TYPE_RESP == 3082
EVT_BLUE_GATT_PROCEDURE_COMPLETE == 3088

\* reset reason, GAP procedure codes, advertising report types, address type
RESET_NORMAL == 1
GAP_GENERAL_DISCOVERY_PROC == 2
GAP_DIRECT_CONNECTION_ESTABLISHMENT_PROC == 64
ADV_IND == 0
ADV_DIRECT_IND == 1
ADV_SCAN_IND == 2
SCAN_RSP == 4
PUBLIC_ADDR == 0
RANDOM_ADDR == 1

\* tBleStatus
BLE_STATUS_SUCCESS == 0
BLE_STATUS_FAILED == 65
BLE_STATUS_TIMEOUT == 255

\* capacities
MAX_ADDRS == 100
MAX_RECORDS == 500
MAX_VALUE_LEN == 10

\* part_005: #define SECONDS 1000
SECONDS == 1000

\* db_type
db_device == "db_device"
db_primary_service == "db_primary_service"
db_included_service == "db_included_service"
db_characteristic == "db_characteristic"

\* check_t
no_check == "no_check"
event_check == "event_check"
le_meta_event_check == "le_meta_event_check"
ecode == "ecode"
reset_reason == "reset_reason"
procedure_complete == "procedure_complete"
condition_check == "condition_check"

\* run_production results
Done == 0
Advanced == 1
NoMatch == -1

-----------------------------------------------------------------------------
(* Bounds of the model and the inputs drawn within them *)

\* number of rules the application registers in one run
MaxAdds == 3

\* the device addresses (tBDAddr, six bytes) the advertising reports carry
Addresses == { <<1, 0, 0, 0, 0, 0>>, <<1, 0, 0, 0, 0, 1>> }

\* What the world outside the statics gives one call of a handler:
\*   ret            the tBleStatus the aci_ calls of the handler return, in the order made
\*   indeterminate  the value of a bool function that ends without a return statement,
\*                  when the call returns
\*   wild           whether an access outside its object hits something the program
\*                  depends on, or a function that ends without a return statement does
\*                  not return to its caller (the program is undefined from then on)
Statuses == {BLE_STATUS_SUCCESS, BLE_STATUS_FAILED, BLE_STATUS_TIMEOUT}

Rets ==
  { <<x, x, x, x>> : x \in Statuses }
    \cup { <<BLE_STATUS_FAILED, BLE_STATUS_FAILED, BLE_STATUS_SUCCESS, BLE_STATUS_SUCCESS>> }

Calm ==
  [ret |-> <<BLE_STATUS_SUCCESS, BLE_STATUS_SUCCESS, BLE_STATUS_SUCCESS, BLE_STATUS_SUCCESS>>,
   indeterminate |-> FALSE, wild |-> FALSE]

\* each differs from Calm in one respect
Envs ==
  { [Calm EXCEPT !.ret = x] : x \in Rets }
    \cup { [Calm EXCEPT !.indeterminate = TRUE], [Calm EXCEPT !.wild = TRUE] }

\* hci_uart_pckt: type byte, then (for an event packet) evt byte and payload bytes
EventPckt(e, d) == [type |-> HCI_EVENT_PKT, evt |-> e, data |-> d]

Packets ==
  { EventPckt(e, <<0, 0, 0>>) : e \in {2, 3, 16} }
    \cup { [type |-> 2, evt |-> 16, data |-> <<0, 0, 0>>] }   \* not an event packet

\* event_condition_t / until_t callbacks supplied by the application
event_is_03(event_pckt) == event_pckt.evt = 3
always_true(event_pckt) == TRUE

\* HCI.cpp: bool check_initialization_or_reset(event_pckt) { display_..(..); } and
\* bool check_event(event_pckt) { display_event(..); } end without a return statement:
\* the call returns a value the source does not determine, or does not return.  What
\* the display functions return is dropped, and they write no static.
check_initialization_or_reset(s, event_pckt) ==
  [s |-> [s EXCEPT !.undefined = @ \/ s.env.wild], ret |-> s.env.indeterminate]

check_event(s, event_pckt) ==
  [s |-> [s EXCEPT !.undefined = @ \/ s.env.wild], ret |-> s.env.indeterminate]

\* (*r->event_condition)(event_pckt), (*until_condition)(event_pckt): the statics the
\* call leaves and the value it returns
CallPredicate(s, f, event_pckt) ==
  CASE f = "event_is_03" -> [s |-> s, ret |-> event_is_03(event_pckt)]
    [] f = "always_true" -> [s |-> s, ret |-> always_true(event_pckt)]
    [] f = "check_initialization_or_reset" -> check_initialization_or_reset(s, event_pckt)
    [] f = "check_event" -> check_event(s, event_pckt)

\* rule_t
Rule(ct, code, cond, act) ==
  [check_type |-> ct, event_code |-> code, event_condition |-> cond, event_action |-> act]

\* the expectations the application registers: by event code, and by condition
CodeRules == { [check_type |-> event_check, event_code |-> 16, event_action |-> "A1"] }

ConditionRules == { [event_condition |-> "always_true", event_action |-> "A3"] }

UntilMenu == {"event_is_03", "always_true"}

UntilEventMenu == { [check_type |-> event_check, event_code |-> 16] }

\* perform callbacks: "perform_ok" returns true, "perform_fails" returns false
Performs == {NULL, "perform_ok", "perform_fails"}

-----------------------------------------------------------------------------
(* The engine record: one field per static of production.cpp / protocol.cpp *)

Engine ==
  [action |-> action, until_condition |-> until_condition, until_check |-> until_check,
   until_check_event |-> until_check_event, production_start |-> production_start,
   timeout_milliseconds |-> timeout_milliseconds, millis |-> millis,
   rule_matched |-> rule_matched,
   rules |-> rules, exclusive_rules |-> exclusive_rules, global_rules |-> global_rules,
   current_rule |-> current_rule, current_exclusive_rule |-> current_exclusive_rule,
   current_global_rule |-> current_global_rule, current_protocol |-> current_protocol,
   state |-> state,
   undefined |-> undefined, hung |-> hung, main_steps_state |-> main_steps_state,
   observation_protocol_state |-> observation_protocol_state,
   directed_scan_protocol_state |-> directed_scan_protocol_state,
   gatt_walk_protocol_state |-> gatt_walk_protocol_state,
   device_index |-> device_index, service_index |-> service_index, context |-> context,
   addr2walk |-> addr2walk, connection_handle |-> connection_handle,
   num_addrs |-> num_addrs, addr_list |-> addr_list, connectables |-> connectables,
   public_addrs |-> public_addrs, next_addr |-> next_addr,
   num_records |-> num_records, device_db |-> device_db,
   env |-> Calm]

\* the statics a call leaves; nothing is known of a program that is undefined, so
\* no call is followed from there, and a program that hangs makes no call
InstallStatics(s) ==
  /\ ~undefined
  /\ ~hung
  /\ undefined' = s.undefined
  /\ hung' = s.hung
  /\ main_steps_state' = s.main_steps_state
  /\ observation_protocol_state' = s.observation_protocol_state
  /\ directed_scan_protocol_state' = s.directed_scan_protocol_state
  /\ gatt_walk_protocol_state' = s.gatt_walk_protocol_state
  /\ device_index' = s.device_index
  /\ service_index' = s.service_index
  /\ context' = s.context
  /\ addr2walk' = s.addr2walk
  /\ connection_handle' = s.connection_handle
  /\ num_addrs' = s.num_addrs
  /\ addr_list' = s.addr_list
  /\ connectables' = s.connectables
  /\ public_addrs' = s.public_addrs
  /\ next_addr' = s.next_addr
  /\ num_records' = s.num_records
  /\ device_db' = s.device_db
  /\ action' = s.action
  /\ until_condition' = s.until_condition
  /\ until_check' = s.until_check
  /\ until_check_event' = s.until_check_event
  /\ production_start' = s.production_start
  /\ timeout_milliseconds' = s.timeout_milliseconds
  /\ millis' = s.millis
  /\ rule_matched' = s.rule_matched
  /\ rules' = s.rules
  /\ exclusive_rules' = s.exclusive_rules
  /\ global_rules' = s.global_rules
  /\ current_rule' = s.current_rule
  /\ current_exclusive_rule' = s.current_exclusive_rule
  /\ current_global_rule' = s.current_global_rule
  /\ current_protocol' = s.current_protocol
  /\ state' = s.state

\* a call of the library made outside the sketch's loop
Install(s) == InstallStatics(s) /\ UNCHANGED apphistory

NoCall == [called |-> FALSE, performed |-> <<>>]

-----------------------------------------------------------------------------
(* production.cpp: perform, until, rule store *)

perform(s, act) == [s EXCEPT !.action = act]

\* HCI.cpp, procedures.cpp: the performs of the application.  start_connection also
\* stores millis() in connect_time, which nothing reads.
start_HCI(s) == TRUE

\* success is assigned after each of the three aci_ calls: the last assignment is returned
set_role_central(s) ==
  LET after_gatt_init == s.env.ret[1] = BLE_STATUS_SUCCESS
      after_gap_init == s.env.ret[2] = BLE_STATUS_SUCCESS
      after_update_char_value == s.env.ret[3] = BLE_STATUS_SUCCESS
  IN after_update_char_value

start_general_discovery(s) == s.env.ret[4] = BLE_STATUS_SUCCESS

start_directed_scan(s) ==
  IF ~set_role_central(s) THEN FALSE
  ELSE IF ~start_general_discovery(s) THEN FALSE
  ELSE TRUE

\* each of the three aci_ calls is made only when the one before succeeded
set_role_to_observer(s) ==
  IF s.env.ret[1] # BLE_STATUS_SUCCESS THEN FALSE
  ELSE IF s.env.ret[2] # BLE_STATUS_SUCCESS THEN FALSE
  ELSE IF s.env.ret[3] # BLE_STATUS_SUCCESS THEN FALSE
  ELSE TRUE

start_observer_scan(s) == ~(s.env.ret[4] # BLE_STATUS_SUCCESS)

start_observation(s) ==
  IF ~set_role_to_observer(s) THEN FALSE
  ELSE IF ~start_observer_scan(s) THEN FALSE
  ELSE TRUE

start_connection(s) == ~(s.env.ret[1] # BLE_STATUS_SUCCESS)

discover_primary_services(s) == s.env.ret[1] \in {BLE_STATUS_TIMEOUT, BLE_STATUS_SUCCESS}

discover_characteristcs(s) == s.env.ret[1] \in {BLE_STATUS_TIMEOUT, BLE_STATUS_SUCCESS}

\* bool terminate_connection(..) ends without a return statement: the call returns a
\* value the source does not determine, or does not return
terminate_connection(s) ==
  [s |-> [s EXCEPT !.undefined = @ \/ s.env.wild], ret |-> s.env.indeterminate]

\* (*action)(action_args): the statics the call leaves and the value it returns;
\* "perform_ok" returns true and "perform_fails" returns false
CallAction(s, act) ==
  CASE act = "perform_ok" -> [s |-> s, ret |-> TRUE]
    [] act = "perform_fails" -> [s |-> s, ret |-> FALSE]
    [] act = "start_HCI" -> [s |-> s, ret |-> start_HCI(s)]
    [] act = "start_observation" -> [s |-> s, ret |-> start_observation(s)]
    [] act = "start_directed_scan" -> [s |-> s, ret |-> start_directed_scan(s)]
    [] act = "start_connection" -> [s |-> s, ret |-> start_connection(s)]
    [] act = "discover_primary_services" -> [s |-> s, ret |-> discover_primary_services(s)]
    [] act = "discover_characteristcs" -> [s |-> s, ret |-> discover_characteristcs(s)]
    [] act = "terminate_connection" -> terminate_connection(s)

\* a run_action_only_once that leaves the action pending
run_action_every_time(s) ==
  LET called(a) == [s |-> a.s, ret |-> a.ret, performed |-> <<s.action>>]
  IN IF s.action # NULL THEN called(CallAction(s, s.action))
     ELSE [s |-> s, ret |-> TRUE, performed |-> <<>>]

\* the frame it returns holds the engine, the value returned and the actions invoked
run_action_only_once(s) ==
  LET called(a) == [s |-> [a.s EXCEPT !.action = NULL], ret |-> a.ret,
                    performed |-> <<s.action>>]
  IN IF s.action # NULL THEN called(CallAction(s, s.action))
     ELSE [s |-> s, ret |-> TRUE, performed |-> <<>>]

until(s, until_function) == [s EXCEPT !.until_condition = until_function]

until_clear(s) == [s EXCEPT !.until_condition = NULL]

until_event(s, check_type, event_code) ==
  [s EXCEPT !.until_check = check_type, !.until_check_event = event_code]

until_event_clear(s) == [s EXCEPT !.until_check = no_check, !.until_check_event = 0]

\* production_start = millis()
start_timeout(s) == [s EXCEPT !.production_start = s.millis]

set_timeout(s, milliseconds) ==
  start_timeout([s EXCEPT !.timeout_milliseconds = milliseconds])

\* a timeout measured from the start of the board instead of the start of the production
timeout_since_boot(s, event_pckt) == s.timeout_milliseconds < s.millis

\* the until predicate of the library: (production_start + timeout_milliseconds) < millis().
\* The instants of the model are far below the range of unsigned long, so the sum
\* does not wrap.
timeout(s, event_pckt) == (s.production_start + s.timeout_milliseconds) < s.millis

met_expectations(s) == s.rule_matched

rules_clear(s) == [s EXCEPT !.rules = <<>>]

exclusive_rules_clear(s) == [s EXCEPT !.exclusive_rules = <<>>]

global_rules_clear(s) == [s EXCEPT !.global_rules = <<>>]

rules_start(s) == [s EXCEPT !.current_rule = 0]

exclusive_rules_start(s) == [s EXCEPT !.current_exclusive_rule = 0]

global_rules_start(s) == [s EXCEPT !.current_global_rule = 0]

rules_done(s) == s.current_rule = Len(s.rules)

exclusive_rules_done(s) == s.current_exclusive_rule = Len(s.exclusive_rules)

global_rules_done(s) == s.current_global_rule = Len(s.global_rules)

\* new_rule followed by set_expect: NULL (the add is dropped) when the iteration
\* cursor is at MAX_RULES, else the rule is written at rules[num_rules++].  The count
\* is not looked at: with MAX_RULES rules stored the rule is written behind the end
\* of the array, into whatever the build has placed there.
new_rule(s, r) ==
  IF s.current_rule = MAX_RULES THEN s
  ELSE IF Len(s.rules) >= MAX_RULES THEN [s EXCEPT !.undefined = TRUE]
  ELSE [s EXCEPT !.rules = Append(@, r)]

new_exclusive_rule(s, r) ==
  IF s.current_exclusive_rule = MAX_RULES THEN s
  ELSE IF Len(s.exclusive_rules) >= MAX_RULES THEN [s EXCEPT !.undefined = TRUE]
  ELSE [s EXCEPT !.exclusive_rules = Append(@, r)]

new_global_rule(s, r) ==
  IF s.current_global_rule = MAX_RULES THEN s
  ELSE IF Len(s.global_rules) >= MAX_RULES THEN [s EXCEPT !.undefined = TRUE]
  ELSE [s EXCEPT !.global_rules = Append(@, r)]

clear_all_expectations(s) == global_rules_clear(exclusive_rules_clear(rules_clear(s)))

\* a clear_expectations that leaves rule_matched as it is
clear_expectations_keeping_flag(s) == rules_clear(s)

clear_expectations(s) == [rules_clear(s) EXCEPT !.rule_matched = FALSE]

clear_global_expectations(s) == global_rules_clear(s)

clear_exclusive_expectations(s) == exclusive_rules_clear(s)

set_expect(check_type, event_code, event_action) ==
  Rule(check_type, event_code, NULL, event_action)

set_expect_condition(event_condition, event_action) ==
  Rule(condition_check, 0, event_condition, event_action)

expect(s, check_type, event_code, event_action) ==
  new_rule(s, set_expect(check_type, event_code, event_action))

expect_condition(s, event_condition, event_action) ==
  new_rule(s, set_expect_condition(event_condition, event_action))

expect_ex(s, check_type, event_code, event_action) ==
  new_exclusive_rule(s, set_expect(check_type, event_code, event_action))

expect_ex_condition(s, event_condition, event_action) ==
  new_exclusive_rule(s, set_expect_condition(event_condition, event_action))

expect_globally(s, check_type, event_code, event_action) ==
  new_global_rule(s, set_expect(check_type, event_code, event_action))

expect_globally_condition(s, event_condition, event_action) ==
  new_global_rule(s, set_expect_condition(event_condition, event_action))

-----------------------------------------------------------------------------
(* production.cpp: event matcher *)

\* event_pckt.data[i] is the byte at offset i-1 of the event payload.
\* evt_blue_aci.ecode: the 16-bit little-endian value at offset 0 of the payload
evt_blue_ecode(event_pckt) == event_pckt.data[1] + 256 * event_pckt.data[2]

check4event(event_pckt, check_type, event_code) ==
  CASE check_type = event_check ->
         event_pckt.evt = event_code
    [] check_type = le_meta_event_check ->
         /\ event_pckt.evt = EVT_LE_META_EVENT
         /\ event_pckt.data[1] = event_code
    [] check_type = reset_reason ->
         /\ event_pckt.evt = EVT_VENDOR
         /\ evt_blue_ecode(event_pckt) = EVT_BLUE_HAL_INITIALIZED
         /\ event_pckt.data[1] = event_code
    [] check_type = ecode ->
         evt_blue_ecode(event_pckt) = event_code
    [] check_type = procedure_complete ->
         /\ event_pckt.evt = EVT_VENDOR
         /\ evt_blue_ecode(event_pckt) = EVT_BLUE_GAP_PROCEDURE_COMPLETE
         /\ event_pckt.data[3] = event_code
    [] OTHER -> FALSE

-----------------------------------------------------------------------------
(* Static arrays.  An array is kept as the sequence of its entries up to the *)
(* last one written; index i of the code is position i + 1, and the entries  *)
(* behind the sequence hold the zeros of static storage.                     *)

\* array[i]
Entry(array, i, zero) == IF i < Len(array) THEN array[i + 1] ELSE zero

\* array[i] = value
Store(array, i, value, zero) ==
  [k \in 1..(IF i + 1 > Len(array) THEN i + 1 ELSE Len(array)) |->
     IF k = i + 1 THEN value ELSE Entry(array, k - 1, zero)]

\* the byte at offset i - 1 of the payload of an event; the receive buffer behind the
\* bytes of the event holds zeros
Byte(data, i) == IF i <= Len(data) THEN data[i] ELSE 0

\* the bytes at offsets from - 1 .. from + len - 2
Bytes(data, from, len) == [k \in 1..len |-> Byte(data, from + k - 1)]

-----------------------------------------------------------------------------
(* addrs.cpp: the list of the addresses seen while scanning                *)

ZeroAddr == <<0, 0, 0, 0, 0, 0>>

init_addr_list(s) == [s EXCEPT !.num_addrs = 0]

\* the for loop of add_addr from entry addr on: the values of found and addr it leaves.
\* The loop's addr++ runs after the body that set found.
RECURSIVE find_addr(_, _, _, _)
find_addr(s, newaddr, addr, found) ==
  IF addr < s.num_addrs /\ ~found
    THEN find_addr(s, newaddr, (addr + 1) % 256,
                   \A index \in 1..6 : newaddr[index] = Entry(s.addr_list, addr, ZeroAddr)[index])
    ELSE [found |-> found, addr |-> addr]

\* add_addr(newaddr, connectable, public_addr).  Neither branch looks at MAX_ADDRS.
add_addr(s, newaddr, connectable, public_addr) ==
  LET f == find_addr(s, newaddr, 0, FALSE)
      addr == f.addr IN
  IF ~f.found
    THEN IF s.num_addrs >= MAX_ADDRS THEN [s EXCEPT !.undefined = TRUE]
         ELSE [s EXCEPT
                 !.addr_list = Store(@, s.num_addrs, newaddr, ZeroAddr),
                 !.connectables = Store(@, s.num_addrs, IF connectable THEN 1 ELSE 0, 0),
                 !.public_addrs = Store(@, s.num_addrs, IF public_addr THEN 1 ELSE 0, 0),
                 !.num_addrs = (@ + 1) % 256]
    ELSE IF addr >= MAX_ADDRS THEN [s EXCEPT !.undefined = TRUE]
         ELSE [s EXCEPT
                 !.connectables = IF connectable /\ Entry(@, addr, 0) = 0
                                    THEN Store(@, addr, -1, 0) ELSE @,
                 !.public_addrs = IF public_addr /\ Entry(@, addr, 0) = 0
                                    THEN Store(@, addr, -1, 0) ELSE @]

addr_enumeration_start(s) == [s EXCEPT !.next_addr = 0]

\* addr_enumeration_next(&addr2walk, &connectable, &public_addr).  The copy loop runs
\* over eight bytes of a six-byte address: it reads two bytes behind addr_list[addr]
\* and writes them behind addr2walk.
addr_enumeration_next(s) ==
  LET addr == s.next_addr IN
  IF addr < s.num_addrs
    THEN [s |-> [s EXCEPT !.next_addr = (addr + 1) % 256,
                          !.addr2walk = Entry(s.addr_list, addr, ZeroAddr),
                          !.undefined = @ \/ s.env.wild \/ addr + 1 >= MAX_ADDRS],
          is_next |-> TRUE,
          connectable |-> Entry(s.connectables, addr, 0),
          public_addr |-> Entry(s.public_addrs, addr, 0)]
    ELSE [s |-> s, is_next |-> FALSE, connectable |-> 0, public_addr |-> 0]

-----------------------------------------------------------------------------
(* db.cpp, get_data.cpp: the device database.  A record is a device or an   *)
(* attribute of the device added last before it.  dora is a union of a      *)
(* device address (addr), an attribute_info_t (attr) and a                   *)
(* handle_value_pair_t: the model keeps its first six bytes, which hold      *)
(*   addr[0..5], or                                                          *)
(*   attr.connection_handle, attr.starting_handle, attr.ending_handle, or    *)
(*   handle_value_pair.connection_handle, .handle, .len and .value[0],       *)
(* the 16-bit members low byte first.  What a function does not write keeps  *)
(* the bytes the member written before left there.                           *)

ZeroContext == [dbtype |-> db_device, parent |-> 0, connection_handle |-> 0]

\* the zero bytes of a record never written
ZeroDora == <<0, 0, 0, 0, 0, 0>>

\* the uint16_t member at byte offset offset of a dora, and the dora after a store
\* to it
Word(dora, offset) == dora[offset + 1] + 256 * dora[offset + 2]

SetWord(dora, offset, value) ==
  [dora EXCEPT ![offset + 1] = value % 256, ![offset + 2] = (value \div 256) % 256]

\* dora.attr and dora.handle_value_pair, as the members read the bytes
attribute_info(dora) ==
  [connection_handle |-> Word(dora, 0), starting_handle |-> Word(dora, 2),
   ending_handle |-> Word(dora, 4)]

handle_value_pair(dora) ==
  [connection_handle |-> Word(dora, 0), handle |-> Word(dora, 2), len |-> dora[5],
   value0 |-> dora[6]]

ZeroRecord == [dora |-> ZeroDora, context |-> ZeroContext, processed |-> FALSE]

db_types == {db_device, db_primary_service, db_included_service, db_characteristic}

\* set_context(context, dbtype, parent, connection_handle)
set_context(dbtype, parent, handle) ==
  [dbtype |-> dbtype, parent |-> parent, connection_handle |-> handle]

\* add_device_to_device_db(device_addr): the statics and the index returned.
\* context.parent and context.connection_handle of the record are left as they are.
add_device_to_device_db(s, device_addr) ==
  IF s.num_records = MAX_RECORDS THEN [s |-> s, ret |-> -1]
  ELSE LET record == Entry(s.device_db, s.num_records, ZeroRecord) IN
       [s |-> [s EXCEPT
                 !.device_db = Store(@, s.num_records,
                                     [record EXCEPT !.context.dbtype = db_device,
                                                    !.dora = device_addr,
                                                    !.processed = FALSE],
                                     ZeroRecord),
                 !.num_records = @ + 1],
        ret |-> s.num_records]

\* new_entry_in_device_db(): NULL when the database is full, else the address of the
\* next record, which keeps what it held
new_entry_in_device_db(s) ==
  IF s.num_records = MAX_RECORDS THEN [s |-> s, null |-> TRUE, index |-> 0]
  ELSE [s |-> [s EXCEPT !.num_records = @ + 1], null |-> FALSE, index |-> s.num_records]

put_back_entry_in_device_db(s) == [s EXCEPT !.num_records = @ - 1]

\* init_device_db(): num_records = 0; the records keep what they hold
init_device_db(s) == [s EXCEPT !.num_records = 0]

\* add_attribute_to_device_db(attribute, context): the statics and the index returned
add_attribute_to_device_db(s, attribute, attribute_context) ==
  IF s.num_records = MAX_RECORDS THEN [s |-> s, ret |-> -1]
  ELSE LET record == Entry(s.device_db, s.num_records, ZeroRecord) IN
       [s |-> [s EXCEPT
                 !.device_db =
                    Store(@, s.num_records,
                          [record EXCEPT
                             !.context = [dbtype |-> attribute_context.dbtype,
                                          parent |-> attribute_context.parent,
                                          connection_handle |->
                                            attribute_context.connection_handle],
                             !.dora = SetWord(SetWord(SetWord(@, 2, attribute.starting_handle),
                                                      4, attribute.ending_handle),
                                              0, attribute.connection_handle),
                             !.processed = FALSE],
                          ZeroRecord),
                 !.num_records = @ + 1],
        ret |-> s.num_records]

\* copy_attribute_context(from, to)
copy_attribute_context(from, to) ==
  [to EXCEPT !.dbtype = from.dbtype, !.parent = from.parent,
             !.connection_handle = from.connection_handle]

\* mutant: nothing is marked
mark_nothing_in_device_db(s, index) == s

\* mark_processed_in_device_db(index): device_db[index].processed = true, whatever
\* the index
mark_processed_in_device_db(s, index) ==
  IF index < 0 \/ index >= MAX_RECORDS THEN [s EXCEPT !.undefined = TRUE]
  ELSE [s EXCEPT !.device_db =
          Store(@, index, [Entry(@, index, ZeroRecord) EXCEPT !.processed = TRUE], ZeroRecord)]

\* the loop of recall_first_unprocessed_of_type_for_device_in_device_db from index i on
RECURSIVE recall_from(_, _, _)
recall_from(s, dbtype, i) ==
  LET record == Entry(s.device_db, i, ZeroRecord) IN
  IF ~(i < s.num_records /\ record.context.dbtype # db_device) THEN -1
  ELSE IF record.context.dbtype = dbtype /\ ~record.processed THEN i
  ELSE recall_from(s, dbtype, i + 1)

recall_first_unprocessed_of_type_for_device_in_device_db(s, dbtype, device_idx) ==
  recall_from(s, dbtype, device_idx + 1)

\* the loop of num_unprocessed_of_type_for_device_in_device_db from index i on
RECURSIVE num_from(_, _, _, _)
num_from(s, dbtype, i, num) ==
  LET record == Entry(s.device_db, i, ZeroRecord) IN
  IF ~(i < s.num_records /\ record.context.dbtype # db_device) THEN num
  ELSE IF record.context.dbtype = dbtype /\ ~record.processed
    THEN num_from(s, dbtype, i + 1, num + 1)
    ELSE num_from(s, dbtype, i + 1, num)

num_unprocessed_of_type_for_device_in_device_db(s, dbtype, device_idx) ==
  num_from(s, dbtype, device_idx + 1, 0)

\* mark_unprocessed_in_device_db(): for (i=0; i<num_records; i++)
\* device_db[i].processed = false
mark_unprocessed_in_device_db(s) ==
  [s EXCEPT !.device_db =
     [k \in 1..Len(@) |-> IF k - 1 < s.num_records THEN [@[k] EXCEPT !.processed = FALSE]
                          ELSE @[k]]]

\* mark_unprocessed_of_type_in_device_db(dbtype)
mark_unprocessed_of_type_in_device_db(s, dbtype) ==
  [s EXCEPT !.device_db =
     [k \in 1..Len(@) |-> IF k - 1 < s.num_records /\ @[k].context.dbtype = dbtype
                            THEN [@[k] EXCEPT !.processed = FALSE]
                          ELSE @[k]]]

\* the loop of mark_unprocessed_of_type_for_device_in_device_db from index i on
RECURSIVE mark_unprocessed_from(_, _, _)
mark_unprocessed_from(s, dbtype, i) ==
  LET record == Entry(s.device_db, i, ZeroRecord) IN
  IF ~(i < s.num_records /\ record.context.dbtype # db_device) THEN s
  ELSE IF record.context.dbtype = dbtype
    THEN mark_unprocessed_from(
           [s EXCEPT !.device_db = Store(@, i, [record EXCEPT !.processed = FALSE],
                                         ZeroRecord)],
           dbtype, i + 1)
    ELSE mark_unprocessed_from(s, dbtype, i + 1)

mark_unprocessed_of_type_for_device_in_device_db(s, dbtype, device_idx) ==
  mark_unprocessed_from(s, dbtype, device_idx + 1)

\* db.h
RECALL_PRIMARY_SERVICE(s, device_idx) ==
  recall_first_unprocessed_of_type_for_device_in_device_db(s, db_primary_service, device_idx)

RECALL_INCLUDED_SERVICE(s, device_idx) ==
  recall_first_unprocessed_of_type_for_device_in_device_db(s, db_included_service, device_idx)

PRIMARY_SERVICES_TODO(s, device_idx) ==
  num_unprocessed_of_type_for_device_in_device_db(s, db_primary_service, device_idx) # 0

INCLUDED_SERVICES_TODO(s, device_idx) ==
  num_unprocessed_of_type_for_device_in_device_db(s, db_included_service, device_idx) # 0

\* get_attribute_info(attr_list, attr_len, attr) on the dora that holds attr: nothing
\* is written when attr_len is neither 6 nor 20; otherwise starting_handle and
\* ending_handle are written (and the uuid behind them), connection_handle is not
get_attribute_info(attr_list, attr_len, dora) ==
  IF (attr_len < 6) \/ ((6 < attr_len) /\ (attr_len # 20)) THEN dora
  ELSE SetWord(SetWord(dora, 2, (attr_list[2] * 256 + attr_list[1]) % 65536),
               4, (attr_list[4] * 256 + attr_list[3]) % 65536)

\* get_handle_value_pair(handle_value_pair_list, handle_value_pair_len,
\* handle_value_pair) on the dora that holds handle_value_pair: handle and len are
\* written, and value[i] for i < len; connection_handle is not
get_handle_value_pair(handle_value_pair_list, handle_value_pair_len, dora) ==
  LET len == (handle_value_pair_len - 2) % 256
  IN [SetWord(dora, 2, (handle_value_pair_list[2] * 256 + handle_value_pair_list[1]) % 65536)
        EXCEPT ![5] = len, ![6] = IF 0 < len THEN handle_value_pair_list[3] ELSE @]

\* the loop of add_device_db_entry_from_event over the attribute_data_list of an
\* EVT_BLUE_ATT_READ_BY_GROUP_TYPE_RESP, from offset i on: an entry whose handle range
\* is invalid is put back.  The record is written through the pointer that
\* new_entry_in_device_db returned, NULL included.
RECURSIVE add_attributes(_, _, _)
add_attributes(s, data, i) ==
  LET event_data_length == Byte(data, 5)
      attribute_data_length == Byte(data, 6) IN
  IF ~(i < event_data_length) THEN s
  ELSE LET e == new_entry_in_device_db(s)
           record == Entry(e.s.device_db, e.index, ZeroRecord)
           dora == get_attribute_info(Bytes(data, 7 + i, 4), attribute_data_length,
                                      record.dora) IN
       IF e.null THEN [s EXCEPT !.undefined = TRUE]
       ELSE IF attribute_info(dora).starting_handle > attribute_info(dora).ending_handle
         THEN add_attributes(
                put_back_entry_in_device_db(
                  [e.s EXCEPT !.device_db =
                     Store(@, e.index, [record EXCEPT !.dora = dora], ZeroRecord)]),
                data, i + attribute_data_length)
         ELSE add_attributes(
                [e.s EXCEPT !.device_db =
                   Store(@, e.index,
                         [record EXCEPT
                            !.dora = SetWord(dora, 0, s.context.connection_handle),
                            !.context = copy_attribute_context(s.context, @)],
                         ZeroRecord)],
                data, i + attribute_data_length)

\* the loop over the handle_value_pair list of an EVT_BLUE_ATT_READ_BY_TYPE_RESP; a
\* value longer than MAX_VALUE_LEN is copied behind the end of value[]
RECURSIVE add_handle_value_pairs(_, _, _)
add_handle_value_pairs(s, data, i) ==
  LET event_data_length == Byte(data, 5)
      handle_value_pair_length == Byte(data, 6) IN
  IF ~(i < event_data_length) THEN s
  ELSE LET e == new_entry_in_device_db(s)
           record == Entry(e.s.device_db, e.index, ZeroRecord)
           dora == get_handle_value_pair(Bytes(data, 7 + i, 3), handle_value_pair_length,
                                         record.dora) IN
       IF e.null \/ (handle_value_pair(dora).len > MAX_VALUE_LEN /\ s.env.wild)
         THEN [s EXCEPT !.undefined = TRUE]
         ELSE add_handle_value_pairs(
                [e.s EXCEPT !.device_db =
                   Store(@, e.index,
                         [record EXCEPT
                            !.dora = SetWord(dora, 0, s.context.connection_handle),
                            !.context = copy_attribute_context(s.context, @)],
                         ZeroRecord)],
                data, i + handle_value_pair_length)

\* get_data.cpp: print_attr_list(attr_list, total_len, attr_len):
\*   for (uint8_t i = 0; i < total_len; i += attr_len) { .. print .. }
\* The index is eight bits wide and wraps: at its k-th test it is (k * attr_len) % 256,
\* and it is back at 0 after 256 additions at the latest.  The call returns when some
\* test finds the index at or beyond total_len; when none of the first 256 does, the
\* loop repeats for ever (an entry length of 0 never leaves 0).  It writes no static.
print_attr_list(total_len, attr_len) ==
  \E k \in 0..255 : ~((k * attr_len) % 256 < total_len)

\* add_device_db_entry_from_event(event_pckt, &context).  On the two events it reads
\* it first prints the list with print_attr_list, which does not return when the
\* lengths make its index wrap below the length of the list: the program hangs there,
\* before any record is added.  It returns true on the two events and false on any
\* other.
add_device_db_entry_from_event(s, event_pckt) ==
  IF event_pckt.evt # EVT_VENDOR THEN [s |-> s, ret |-> FALSE]
  ELSE IF evt_blue_ecode(event_pckt) \in {EVT_BLUE_ATT_READ_BY_GROUP_TYPE_RESP,
                                          EVT_BLUE_ATT_READ_BY_TYPE_RESP}
            /\ ~print_attr_list(Byte(event_pckt.data, 5), Byte(event_pckt.data, 6))
    THEN [s |-> [s EXCEPT !.hung = TRUE], ret |-> TRUE]
  ELSE CASE evt_blue_ecode(event_pckt) = EVT_BLUE_ATT_READ_BY_GROUP_TYPE_RESP ->
              [s |-> add_attributes(s, event_pckt.data, 0), ret |-> TRUE]
         [] evt_blue_ecode(event_pckt) = EVT_BLUE_ATT_READ_BY_TYPE_RESP ->
              [s |-> add_handle_value_pairs(s, event_pckt.data, 0), ret |-> TRUE]
         [] OTHER -> [s |-> s, ret |-> FALSE]

\* get_advertising_info(event_pckt): the le_advertising_info behind the subevent code
\* and the number of reports
get_advertising_info(event_pckt) ==
  [evt_type |-> Byte(event_pckt.data, 3), bdaddr_type |-> Byte(event_pckt.data, 4),
   bdaddr |-> Bytes(event_pckt.data, 5, 6), data_length |-> Byte(event_pckt.data, 11)]

\* get_connection_handle(event_pckt, &connection_handle): true with the handle of a
\* connection complete event of status 0, false with handle 0 on anything else
get_connection_handle(s, event_pckt) ==
  IF event_pckt.evt = EVT_LE_META_EVENT /\ Byte(event_pckt.data, 1) = EVT_LE_CONN_COMPLETE
       /\ ~(Byte(event_pckt.data, 2) # 0)
    THEN [s |-> [s EXCEPT !.connection_handle =
                            Byte(event_pckt.data, 3) + 256 * Byte(event_pckt.data, 4)],
          ret |-> TRUE]
    ELSE [s |-> [s EXCEPT !.connection_handle = 0], ret |-> FALSE]

\* get_disconnection_complete(event_pckt, &disconnection_complete_pckt): both branches
\* store a pointer into disconnection_complete_pckt, a local of the call of
\* gatt_walk_protocol that registered the rule and has returned, and return true
get_disconnection_complete(s, event_pckt) ==
  [s |-> [s EXCEPT !.undefined = @ \/ s.env.wild], ret |-> TRUE]

\* part_005: process_advertising_info(event_pckt), which returns true
process_advertising_info(s, event_pckt) ==
  LET info == get_advertising_info(event_pckt)
      added(s1) == [s |-> s1, ret |-> TRUE] IN
  IF info.evt_type = ADV_IND \/ info.evt_type = ADV_DIRECT_IND \/ info.evt_type = ADV_SCAN_IND
       \/ info.evt_type = SCAN_RSP
    THEN IF info.bdaddr_type = PUBLIC_ADDR THEN added(add_addr(s, info.bdaddr, TRUE, TRUE))
         ELSE added(add_addr(s, info.bdaddr, TRUE, FALSE))
    ELSE IF info.bdaddr_type = PUBLIC_ADDR THEN added(add_addr(s, info.bdaddr, FALSE, TRUE))
         ELSE added(add_addr(s, info.bdaddr, FALSE, FALSE))

\* HCI.cpp: bool set_MAC_addr_action(event_pckt, ..) { set_public_MAC_addr(); } sends
\* the address to the controller, writes no static and ends without a return
\* statement: the call returns a value the source does not determine, or does not
\* return
set_MAC_addr_action(s, event_pckt) ==
  [s |-> [s EXCEPT !.undefined = @ \/ s.env.wild], ret |-> s.env.indeterminate]

\* HCI.cpp: display_meta_event: handled on the subevents 0x01 .. 0x05
display_meta_event(subevent) == subevent \in 1..5

\* HCI.cpp: display_ecode: handled on the ecodes its switch names, by group:
\*   GAP    EVT_BLUE_GAP_LIMITED_DISCOVERABLE .. EVT_BLUE_GAP_ADDR_NOT_RESOLVED_IDB05A1
\*   GATT   EVT_BLUE_GATT_ATTRIBUTE_MODIFIED .. EVT_BLUE_ATT_READ_BY_GROUP_TYPE_RESP,
\*          EVT_BLUE_ATT_PREPARE_WRITE_RESP .. EVT_BLUE_GATT_TX_POOL_AVAILABLE,
\*          EVT_BLUE_GATT_PREPARE_WRITE_PERMIT_REQ
\*   HAL    EVT_BLUE_HAL_EVENTS_LOST_IDB05A1, EVT_BLUE_HAL_CRASH_INFO_IDB05A1
\*   L2CAP  EVT_BLUE_L2CAP_CONN_UPD_RESP .. EVT_BLUE_L2CAP_CONN_UPD_REQ
\*   EVT_BLUE_INITIALIZED, which has the value of EVT_BLUE_HAL_INITIALIZED
display_ecode(blue_ecode) ==
  \/ blue_ecode \in (EVT_BLUE_GAP_PROCEDURE_COMPLETE - 7)..(EVT_BLUE_GAP_PROCEDURE_COMPLETE + 1)
  \/ blue_ecode \in (EVT_BLUE_ATT_READ_BY_TYPE_RESP - 5)..EVT_BLUE_ATT_READ_BY_GROUP_TYPE_RESP
  \/ blue_ecode \in (EVT_BLUE_ATT_READ_BY_GROUP_TYPE_RESP + 2)..(EVT_BLUE_GATT_PROCEDURE_COMPLETE + 6)
  \/ blue_ecode = EVT_BLUE_GATT_PROCEDURE_COMPLETE + 8
  \/ blue_ecode \in (EVT_BLUE_HAL_INITIALIZED + 1)..(EVT_BLUE_HAL_INITIALIZED + 2)
  \/ blue_ecode \in (EVT_BLUE_L2CAP_CONN_UPD_REQ - 2)..EVT_BLUE_L2CAP_CONN_UPD_REQ
  \/ blue_ecode = EVT_BLUE_HAL_INITIALIZED

\* HCI.cpp: display_event(event_pckt, ..) prints the event and writes no static; it
\* returns whether it knows the event: the event codes 0x03, 0x05, 0x08, 0x0C, 0x0F,
\* 0x10, 0x13, 0x1A and 0x30, a meta event or a vendor event it knows
display_event(event_pckt) ==
  CASE event_pckt.evt \in {3, EVT_DISCONN_COMPLETE, 8, 12, 15, 16, 19, 26, 48} -> TRUE
    [] event_pckt.evt = EVT_LE_META_EVENT -> display_meta_event(Byte(event_pckt.data, 1))
    [] event_pckt.evt = EVT_VENDOR -> display_ecode(evt_blue_ecode(event_pckt))
    [] OTHER -> FALSE

\* handle_connection_update(event_pckt, ..): answers a connection update request,
\* writes no static, and returns whether the event was one
handle_connection_update(event_pckt) ==
  event_pckt.evt = EVT_VENDOR /\ evt_blue_ecode(event_pckt) = EVT_BLUE_L2CAP_CONN_UPD_REQ

-----------------------------------------------------------------------------
(* production.cpp: firing a rule *)

\* r->event_action(event_pckt, r->action_args): the statics the call leaves and the
\* value it returns.  The callbacks "A1", "A3", "A_false", "A_expect" and "A_until"
\* are supplied by the application: "A_false" returns false, the others return true;
\* "A_expect" registers an expectation on the event code 0x10 and "A_until" sets an
\* until that holds on every event; "A1", "A3" and "A_false" write no static.
CallEventAction(s, act, event_pckt) ==
  CASE act = "A1" -> [s |-> s, ret |-> TRUE]
    [] act = "A3" -> [s |-> s, ret |-> TRUE]
    [] act = "A_false" -> [s |-> s, ret |-> FALSE]
    [] act = "A_expect" -> [s |-> expect(s, event_check, 16, "A1"), ret |-> TRUE]
    [] act = "A_until" -> [s |-> until(s, "always_true"), ret |-> TRUE]
    [] act = "set_MAC_addr_action" -> set_MAC_addr_action(s, event_pckt)
    [] act = "display_event" -> [s |-> s, ret |-> display_event(event_pckt)]
    [] act = "handle_connection_update" ->
         [s |-> s, ret |-> handle_connection_update(event_pckt)]
    [] act = "process_advertising_info" -> process_advertising_info(s, event_pckt)
    [] act = "get_connection_handle" -> get_connection_handle(s, event_pckt)
    [] act = "add_device_db_entry_from_event" -> add_device_db_entry_from_event(s, event_pckt)
    [] act = "get_disconnection_complete" -> get_disconnection_complete(s, event_pckt)

\* the do_action of fire_rule: the rule's condition or event check on the packet
rule_check(s, r, event_pckt) ==
  IF r.check_type = condition_check
    THEN IF r.event_condition # NULL
           THEN CallPredicate(s, r.event_condition, event_pckt)
           ELSE [s |-> s, ret |-> FALSE]
    ELSE [s |-> s, ret |-> check4event(event_pckt, r.check_type, r.event_code)]

\* if (do_action) { if (r->event_action) r->event_action(event_pckt, r->action_args); }
fire_rule_action(s, r, event_pckt) ==
  IF r.event_action # NULL
    THEN CallEventAction(s, r.event_action, event_pckt)
    ELSE [s |-> s, ret |-> TRUE]

\* a fire_rule that reports a match only when there is an action to invoke
fire_rule_only_with_action(s, r, event_pckt) ==
  LET checked(c) ==
        IF c.ret /\ r.event_action # NULL
          THEN [s |-> fire_rule_action(c.s, r, event_pckt).s, do_action |-> TRUE]
          ELSE [s |-> c.s, do_action |-> FALSE]
  IN checked(rule_check(s, r, event_pckt))

\* a fire_rule that returns what the action returned
fire_rule_propagating(s, r, event_pckt) ==
  LET acted(a) == [s |-> a.s, do_action |-> a.ret]
      checked(c) ==
        IF c.ret THEN acted(fire_rule_action(c.s, r, event_pckt))
        ELSE [s |-> c.s, do_action |-> FALSE]
  IN checked(rule_check(s, r, event_pckt))

\* fire_rule: the statics it leaves and whether the rule matched (do_action); the
\* action, when there is one, is then invoked and what it returns is dropped
fire_rule(s, r, event_pckt) ==
  LET checked(c) ==
        IF c.ret
          THEN [s |-> fire_rule_action(c.s, r, event_pckt).s, do_action |-> TRUE]
          ELSE [s |-> c.s, do_action |-> FALSE]
  IN checked(rule_check(s, r, event_pckt))

\* one entry of the firing log of a dispatch
Fired(set, index, r) == [set |-> set, index |-> index, action |-> r.event_action]

-----------------------------------------------------------------------------
(* production.cpp: run_production.  A frame f is the locals of the call:     *)
(* f.s the engine, f.did_rule, and f.fired the rules fired so far, in order. *)
(* When an action does not return (f.s.hung), nothing of what follows its    *)
(* call is executed: the statics stay as they were at the call.              *)

\* while (!exclusive_rules_done() && !did_rule) ...
RECURSIVE run_exclusive_rules_all(_, _)
run_exclusive_rules_all(f, event_pckt) ==
  LET r == f.s.exclusive_rules[f.s.current_exclusive_rule + 1]
      fired(c) ==
        IF c.do_action
          THEN [s |-> [c.s EXCEPT !.rule_matched = TRUE], did_rule |-> TRUE,
                fired |-> Append(f.fired, Fired("exclusive", c.s.current_exclusive_rule, r))]
          ELSE [f EXCEPT !.s = c.s]
  IN IF ~exclusive_rules_done(f.s)
       THEN run_exclusive_rules_all(
              fired(fire_rule([f.s EXCEPT !.current_exclusive_rule = @ + 1], r, event_pckt)), event_pckt)
       ELSE f

RECURSIVE run_exclusive_rules(_, _)
run_exclusive_rules(f, event_pckt) ==
  LET r == f.s.exclusive_rules[f.s.current_exclusive_rule + 1]
      fired(c) ==
        IF c.s.hung THEN [f EXCEPT !.s = c.s]
        ELSE IF c.do_action
          THEN [s |-> [c.s EXCEPT !.rule_matched = TRUE], did_rule |-> TRUE,
                fired |-> Append(f.fired, Fired("exclusive", c.s.current_exclusive_rule, r))]
          ELSE [f EXCEPT !.s = c.s]
  IN IF ~f.s.hung /\ ~exclusive_rules_done(f.s) /\ ~f.did_rule
       THEN run_exclusive_rules(
              fired(fire_rule([f.s EXCEPT !.current_exclusive_rule = @ + 1], r, event_pckt)), event_pckt)
       ELSE f

\* while (!rules_done()) ...
RECURSIVE run_rules_first_only(_, _)
run_rules_first_only(f, event_pckt) ==
  LET r == f.s.rules[f.s.current_rule + 1]
      fired(c) ==
        IF c.do_action
          THEN [s |-> [c.s EXCEPT !.rule_matched = TRUE], did_rule |-> TRUE,
                fired |-> Append(f.fired, Fired("normal", c.s.current_rule, r))]
          ELSE [f EXCEPT !.s = c.s]
  IN IF ~rules_done(f.s) /\ ~f.did_rule
       THEN run_rules_first_only(
              fired(fire_rule([f.s EXCEPT !.current_rule = @ + 1], r, event_pckt)), event_pckt)
       ELSE f

RECURSIVE run_rules(_, _)
run_rules(f, event_pckt) ==
  LET r == f.s.rules[f.s.current_rule + 1]
      fired(c) ==
        IF c.s.hung THEN [f EXCEPT !.s = c.s]
        ELSE IF c.do_action
          THEN [s |-> [c.s EXCEPT !.rule_matched = TRUE], did_rule |-> TRUE,
                fired |-> Append(f.fired, Fired("normal", c.s.current_rule, r))]
          ELSE [f EXCEPT !.s = c.s]
  IN IF ~f.s.hung /\ ~rules_done(f.s)
       THEN run_rules(
              fired(fire_rule([f.s EXCEPT !.current_rule = @ + 1], r, event_pckt)), event_pckt)
       ELSE f

\* while (!global_rules_done() && !did_rule) ...
RECURSIVE run_global_rules_counting(_, _)
run_global_rules_counting(f, event_pckt) ==
  LET r == f.s.global_rules[f.s.current_global_rule + 1]
      fired(c) ==
        IF c.do_action
          THEN [s |-> [c.s EXCEPT !.rule_matched = TRUE], did_rule |-> TRUE,
                fired |-> Append(f.fired, Fired("global", c.s.current_global_rule, r))]
          ELSE [f EXCEPT !.s = c.s]
  IN IF ~global_rules_done(f.s) /\ ~f.did_rule
       THEN run_global_rules_counting(
              fired(fire_rule([f.s EXCEPT !.current_global_rule = @ + 1], r, event_pckt)), event_pckt)
       ELSE f

RECURSIVE run_global_rules(_, _)
run_global_rules(f, event_pckt) ==
  LET r == f.s.global_rules[f.s.current_global_rule + 1]
      fired(c) ==
        IF c.s.hung THEN [f EXCEPT !.s = c.s]
        ELSE IF c.do_action
          THEN [s |-> c.s, did_rule |-> TRUE,
                fired |-> Append(f.fired, Fired("global", c.s.current_global_rule, r))]
          ELSE [f EXCEPT !.s = c.s]
  IN IF ~f.s.hung /\ ~global_rules_done(f.s) /\ ~f.did_rule
       THEN run_global_rules(
              fired(fire_rule([f.s EXCEPT !.current_global_rule = @ + 1], r, event_pckt)), event_pckt)
       ELSE f

\* the rule-firing part of run_production: exclusive, then normal, then global
fire_rules_normal_first(s, event_pckt) ==
  LET f1 == run_rules([s |-> rules_start(s), did_rule |-> FALSE, fired |-> <<>>], event_pckt)
      f2 == run_exclusive_rules(
              [f1 EXCEPT !.s = exclusive_rules_start(@), !.did_rule = FALSE], event_pckt)
      f3 == [f2 EXCEPT !.did_rule = f1.did_rule \/ f2.did_rule]
  IN IF ~f3.did_rule
       THEN run_global_rules([f3 EXCEPT !.s = global_rules_start(@)], event_pckt)
       ELSE f3

fire_rules_global_always(s, event_pckt) ==
  LET f1 == run_exclusive_rules(
              [s |-> exclusive_rules_start(s), did_rule |-> FALSE, fired |-> <<>>], event_pckt)
      f2 == run_rules([f1 EXCEPT !.s = rules_start(@)], event_pckt)
      f3 == run_global_rules(
              [f2 EXCEPT !.s = global_rules_start(@), !.did_rule = FALSE], event_pckt)
  IN [f3 EXCEPT !.did_rule = f2.did_rule \/ f3.did_rule]

fire_rules(s, event_pckt) ==
  LET global_if_none(f2) ==
        IF ~f2.did_rule /\ ~f2.s.hung
          THEN run_global_rules([f2 EXCEPT !.s = global_rules_start(@)], event_pckt)
          ELSE f2
  IN global_if_none(
       run_rules(
         [run_exclusive_rules(
            [s |-> exclusive_rules_start(s), did_rule |-> FALSE, fired |-> <<>>], event_pckt)
            EXCEPT !.s = IF @.hung THEN @ ELSE rules_start(@)],
         event_pckt))

\* (*until_condition)(event_pckt): a predicate of the application, or timeout, which
\* reads the statics of the engine
CallUntil(s, event_pckt) ==
  IF s.until_condition = "timeout"
    THEN [s |-> s, ret |-> timeout(s, event_pckt)]
    ELSE CallPredicate(s, s.until_condition, event_pckt)

\* until_condition && ((*until_condition)(event_pckt))
until_holds(s, event_pckt) ==
  IF s.until_condition # NULL THEN CallUntil(s, event_pckt) ELSE [s |-> s, ret |-> FALSE]

\* keep running unless no until to check or either until function or until_event is
\* true: the statics the call of the until function leaves, and keep_running
keep_running_without_until(s, event_pckt) ==
  LET called(u) ==
        [s |-> u.s,
         ret |-> /\ ~u.ret
                 /\ ~(s.until_check # no_check
                        /\ check4event(event_pckt, s.until_check, s.until_check_event))]
  IN called(until_holds(s, event_pckt))

keep_running_ignoring_until_event(s, event_pckt) ==
  LET called(u) ==
        [s |-> u.s,
         ret |-> /\ ~(s.until_condition = NULL /\ s.until_check = no_check)
                 /\ ~u.ret]
  IN called(until_holds(s, event_pckt))

keep_running(s, event_pckt) ==
  LET called(u) ==
        [s |-> u.s,
         ret |-> /\ ~(s.until_condition = NULL /\ s.until_check = no_check)
                 /\ ~u.ret
                 /\ ~(s.until_check # no_check
                        /\ check4event(event_pckt, s.until_check, s.until_check_event))]
  IN called(until_holds(s, event_pckt))

\* if (!keep_running) { rules_clear(); exclusive_rules_clear(); until_clear(); until_event_clear(); }
production_finished_keeping_exclusive(s) == until_event_clear(until_clear(rules_clear(s)))

production_finished_clearing_global(s) ==
  global_rules_clear(until_event_clear(until_clear(exclusive_rules_clear(rules_clear(s)))))

production_finished(s) ==
  until_event_clear(until_clear(exclusive_rules_clear(rules_clear(s))))

\* a run_production that does not look at the packet type
run_production_any_packet_type(s, pckt) ==
  LET result(f) ==
        LET kept(k) ==
              IF ~k.ret
                THEN [s |-> production_finished(k.s), result |-> Done, fired |-> f.fired]
                ELSE [s |-> k.s, result |-> IF f.did_rule THEN Advanced ELSE NoMatch,
                      fired |-> f.fired]
        IN kept(keep_running(f.s, pckt))
  IN result(fire_rules(s, pckt))

\* a run_production that reports no match whenever the production goes on
run_production_without_advanced(s, pckt) ==
  IF pckt.type # HCI_EVENT_PKT
    THEN [s |-> s, result |-> NoMatch, fired |-> <<>>]
    ELSE LET result(f) ==
               LET kept(k) ==
                     IF ~k.ret
                       THEN [s |-> production_finished(k.s), result |-> Done,
                             fired |-> f.fired]
                       ELSE [s |-> k.s, result |-> NoMatch, fired |-> f.fired]
               IN kept(keep_running(f.s, pckt))
         IN result(fire_rules(s, pckt))

\* When the call does not return (s.hung in the frame), result is not a value the
\* caller receives.
run_production(s, pckt) ==
  IF pckt.type # HCI_EVENT_PKT
    THEN [s |-> s, result |-> NoMatch, fired |-> <<>>]
    ELSE LET result(f) ==
               LET kept(k) ==
                     IF ~k.ret
                       THEN [s |-> production_finished(k.s), result |-> Done,
                             fired |-> f.fired]
                       ELSE [s |-> k.s, result |-> IF f.did_rule THEN Advanced ELSE NoMatch,
                             fired |-> f.fired]
               IN IF f.s.hung THEN [s |-> f.s, result |-> NoMatch, fired |-> f.fired]
                  ELSE kept(keep_running(f.s, pckt))
         IN result(fire_rules(s, pckt))

-----------------------------------------------------------------------------
(* protocol.cpp: the current protocol *)

set_current_protocol(s, protocol) == [s EXCEPT !.current_protocol = protocol]

get_current_protocol(s) == s.current_protocol

\* a clear_current_protocol that leaves the rules and the until of the production
clear_current_protocol_keeping_production(s) == [s EXCEPT !.current_protocol = NULL]

clear_current_protocol(s) ==
  [until_event_clear(until_clear(clear_exclusive_expectations(clear_expectations(s))))
     EXCEPT !.current_protocol = NULL]

\* a protocol_running() that never reports a running protocol
protocol_running_never(s) == FALSE

protocol_running(s) == s.current_protocol # NULL

\* protocol.cpp: wait_for_protocol_finish: while (current_protocol) delay(500);
\* whether the test of the loop lets the call return
wait_for_protocol_finish(s) == ~(s.current_protocol # NULL)

-----------------------------------------------------------------------------
(* protocol.h: the stepping macros.  A body frame b is the engine b.s, the  *)
(* value b.ret the protocol function returns and the performs b.performed   *)
(* it invoked.                                                               *)

\* a RUN_PRODUCTION that advances although the perform failed
RUN_PRODUCTION_advancing_on_failure(s, protocol_success) ==
  LET a == run_action_only_once(s)
  IN [s |-> [(IF ~a.ret THEN clear_current_protocol(a.s) ELSE a.s) EXCEPT !.state = @ + 1],
      ret |-> protocol_success, performed |-> a.performed]

\* RUN_PRODUCTION: ret = run_action_only_once(); if (!ret) clear_current_protocol();
\* else state++; return protocol_success;
RUN_PRODUCTION(s, protocol_success) ==
  LET a == run_action_only_once(s)
  IN [s |-> IF ~a.ret THEN clear_current_protocol(a.s)
                      ELSE [a.s EXCEPT !.state = @ + 1],
      ret |-> protocol_success, performed |-> a.performed]

\* a RUN_PRODUCTION_AND_REPEAT_IF that advances whatever its condition
RUN_PRODUCTION_AND_REPEAT_IF_always_advancing(s, protocol_success, cond) ==
  IF ~protocol_success THEN [s |-> s, ret |-> FALSE, performed |-> <<>>]
  ELSE LET a == run_action_only_once(s)
       IN [s |-> IF ~a.ret THEN clear_current_protocol(a.s)
                 ELSE [a.s EXCEPT !.state = @ + 1],
           ret |-> TRUE, performed |-> a.performed]

\* RUN_PRODUCTION_AND_REPEAT_IF(cond)
RUN_PRODUCTION_AND_REPEAT_IF(s, protocol_success, cond) ==
  IF ~protocol_success THEN [s |-> s, ret |-> FALSE, performed |-> <<>>]
  ELSE LET a == run_action_only_once(s)
       IN [s |-> IF ~a.ret THEN clear_current_protocol(a.s)
                 ELSE IF ~cond THEN [a.s EXCEPT !.state = @ + 1] ELSE a.s,
           ret |-> TRUE, performed |-> a.performed]

\* an END_PROTOCOL that does not reset the step
END_PROTOCOL_keeping_state(s, protocol_success) ==
  [s |-> clear_current_protocol(s), ret |-> protocol_success, performed |-> <<>>]

\* END_PROTOCOL: state = 0; clear_current_protocol(); return protocol_success;
END_PROTOCOL(s, protocol_success) ==
  [s |-> clear_current_protocol([s EXCEPT !.state = 0]), ret |-> protocol_success,
   performed |-> <<>>]

\* ABORT_PROTOCOL: protocol_success = false; return false;
ABORT_PROTOCOL(s) == [s |-> s, ret |-> FALSE, performed |-> <<>>]

\* The productions a step of the protocol configures
r1 == [check_type |-> event_check, event_code |-> 16, event_action |-> "A1"]
r3 == [event_condition |-> "always_true", event_action |-> "A3"]

NoUntilEvent == [check_type |-> no_check, event_code |-> 0]

ProductionMenu ==
  { [ex |-> <<>>, normal |-> <<>>, until |-> NULL, until_event |-> NoUntilEvent],
    [ex |-> <<r1>>, normal |-> <<r3>>, until |-> NULL, until_event |-> NoUntilEvent],
    [ex |-> <<>>, normal |-> <<r1>>, until |-> "event_is_03", until_event |-> NoUntilEvent],
    [ex |-> <<r3>>, normal |-> <<>>, until |-> NULL,
     until_event |-> [check_type |-> event_check, event_code |-> 16]] }

\* what the code of one step does: abort, or PERFORM / expect_ex / expect / until /
\* until_event; cond is the repeat condition of the step that has one
NoStep ==
  [protocol |-> "protocol", abort |-> FALSE, perform |-> NULL, cond |-> FALSE,
   production |-> [ex |-> <<>>, normal |-> <<>>, until |-> NULL, until_event |-> NoUntilEvent]]

StepConfigs ==
  { [NoStep EXCEPT !.abort = TRUE] }
    \cup [protocol : {"protocol"}, abort : {FALSE}, perform : Performs,
          production : ProductionMenu, cond : BOOLEAN]

\* the step codes that differ at a position: only the step closed by
\* RUN_PRODUCTION_AND_REPEAT_IF has a repeat condition, and the last step configures
\* no production
StepConfigsAt(position) ==
  CASE position = 1 -> StepConfigs
    [] position = 2 -> { c \in StepConfigs : c.abort \/ c = NoStep }
    [] OTHER -> { c \in StepConfigs : ~c.cond }

register_rule(s, set, m) ==
  IF "event_condition" \in DOMAIN m
    THEN CASE set = "exclusive" -> expect_ex_condition(s, m.event_condition, m.event_action)
           [] set = "normal" -> expect_condition(s, m.event_condition, m.event_action)
           [] set = "global" -> expect_globally_condition(s, m.event_condition, m.event_action)
    ELSE CASE set = "exclusive" -> expect_ex(s, m.check_type, m.event_code, m.event_action)
           [] set = "normal" -> expect(s, m.check_type, m.event_code, m.event_action)
           [] set = "global" -> expect_globally(s, m.check_type, m.event_code, m.event_action)

RECURSIVE register_rules(_, _, _)
register_rules(s, set, ms) ==
  IF ms = <<>> THEN s
  ELSE register_rules(register_rule(s, set, Head(ms)), set, Tail(ms))

\* PERFORM(..) expect_ex(..) expect(..) until(..) until_event(..)
configure_production(s, cfg) ==
  LET s1 == IF cfg.perform # NULL THEN perform(s, cfg.perform) ELSE s
      s2 == register_rules(s1, "exclusive", cfg.production.ex)
      s3 == register_rules(s2, "normal", cfg.production.normal)
      s4 == IF cfg.production.until # NULL THEN until(s3, cfg.production.until) ELSE s3
  IN IF cfg.production.until_event.check_type # no_check
       THEN until_event(s4, cfg.production.until_event.check_type,
                        cfg.production.until_event.event_code)
       ELSE s4

\* part_005: the code of observation_protocol between two stepping macros.  The step
\* after the last production resets the controller with BlueNRG_RST() and prints the
\* addresses, which writes no static.
observation_protocol_step(s, position) ==
  CASE position = 0 ->
         LET s1 == set_current_protocol(s, "observation_protocol")
             s2 == init_addr_list(s1)
             s3 == perform(s2, "start_HCI")
             s4 == expect(s3, reset_reason, RESET_NORMAL, "set_MAC_addr_action")
         IN RUN_PRODUCTION(s4, TRUE)
    [] position = 1 ->
         IF met_expectations(s)
           THEN LET s1 == set_timeout(s, 20 * SECONDS)
                    s2 == perform(s1, "start_observation")
                    s3 == expect(s2, event_check, EVT_LE_META_EVENT, "process_advertising_info")
                    s4 == until(s3, "timeout")
                IN RUN_PRODUCTION(s4, TRUE)
           ELSE ABORT_PROTOCOL(s)
    [] position = 2 -> END_PROTOCOL(s, TRUE)

\* part_005: the code of directed_scan_protocol between two stepping macros.  The
\* macros read and write the static state of the function, held in s.state while the
\* function runs.
directed_scan_protocol_step(s, position) ==
  CASE position = 0 ->
         LET s1 == set_current_protocol(s, "directed_scan_protocol")
             s2 == init_addr_list(s1)
             s3 == perform(s2, "start_HCI")
             s4 == expect(s3, reset_reason, RESET_NORMAL, "set_MAC_addr_action")
         IN RUN_PRODUCTION(s4, TRUE)
    [] position = 1 ->
         IF met_expectations(s)
           THEN LET s1 == perform(s, "start_directed_scan")
                    s2 == expect(s1, event_check, EVT_LE_META_EVENT, "process_advertising_info")
                    s3 == until_event(s2, procedure_complete, GAP_GENERAL_DISCOVERY_PROC)
                IN RUN_PRODUCTION(s3, TRUE)
           ELSE ABORT_PROTOCOL(s)
    [] position = 2 -> END_PROTOCOL(s, TRUE)

\* part_005: the code of gatt_walk_protocol between two stepping macros, built
\* without TRY_INCLUDED_SERVICES.  protocol_success is true at every call.
gatt_walk_protocol_step(s, position) ==
  CASE position = 0 ->
         LET s1 == set_current_protocol(s, "gatt_walk_protocol")
             s2 == perform(s1, "start_connection")
             s3 == expect_ex(s2, le_meta_event_check, EVT_LE_CONN_COMPLETE,
                             "get_connection_handle")
             s4 == expect_ex(s3, procedure_complete, GAP_DIRECT_CONNECTION_ESTABLISHMENT_PROC,
                             "display_event")
             s5 == until_event(s4, le_meta_event_check, EVT_LE_CONN_COMPLETE)
         IN RUN_PRODUCTION(s5, TRUE)
    [] position = 1 ->
         IF met_expectations(s)
           THEN LET a == add_device_to_device_db(s, s.addr2walk)
                    s1 == [a.s EXCEPT !.device_index = a.ret]
                    s2 == [s1 EXCEPT !.context = set_context(db_primary_service,
                                                             s1.device_index,
                                                             s1.connection_handle)]
                    s3 == mark_processed_in_device_db(s2, s2.device_index)
                    s4 == perform(s3, "discover_primary_services")
                    s5 == expect_ex(s4, ecode, EVT_BLUE_ATT_READ_BY_GROUP_TYPE_RESP,
                                    "add_device_db_entry_from_event")
                    s6 == expect_ex(s5, ecode, EVT_BLUE_L2CAP_CONN_UPD_REQ,
                                    "handle_connection_update")
                    s7 == until_event(s6, ecode, EVT_BLUE_GATT_PROCEDURE_COMPLETE)
                IN RUN_PRODUCTION(s7, TRUE)
           ELSE ABORT_PROTOCOL(s)
    [] position = 2 ->
         LET primary == RECALL_PRIMARY_SERVICE(s, s.device_index)
             s1 == [s EXCEPT !.service_index =
                               IF primary < 0 THEN RECALL_INCLUDED_SERVICE(s, s.device_index)
                               ELSE primary]
             s2 == [s1 EXCEPT !.context = set_context(db_characteristic, s1.service_index,
                                                      s1.connection_handle)]
             s3 == mark_processed_in_device_db(s2, s2.service_index)
             s4 == perform(s3, "discover_characteristcs")
             s5 == expect_ex(s4, ecode, EVT_BLUE_ATT_READ_BY_TYPE_RESP,
                             "add_device_db_entry_from_event")
             s6 == expect_ex(s5, ecode, EVT_BLUE_L2CAP_CONN_UPD_REQ, "handle_connection_update")
             s7 == until_event(s6, ecode, EVT_BLUE_GATT_PROCEDURE_COMPLETE)
             items_todo == IF ~PRIMARY_SERVICES_TODO(s7, s7.device_index)
                             THEN INCLUDED_SERVICES_TODO(s7, s7.device_index)
                             ELSE TRUE
         IN IF s1.service_index < 0 THEN ABORT_PROTOCOL(s1)
            ELSE RUN_PRODUCTION_AND_REPEAT_IF(s7, TRUE, items_todo)
    [] position = 3 ->
         LET s1 == perform(s, "terminate_connection")
             s2 == expect_ex(s1, event_check, EVT_DISCONN_COMPLETE,
                             "get_disconnection_complete")
             s3 == until_event(s2, event_check, EVT_DISCONN_COMPLETE)
         IN RUN_PRODUCTION(s3, TRUE)
    [] position = 4 ->
         \* disconnection_complete_pckt->status is read through the local pointer
         \* disconnection_complete_pckt, which this call has not initialized
         END_PROTOCOL([s EXCEPT !.undefined = @ \/ s.env.wild], TRUE)

\* the code between two stepping macros, by its position in the source:
\*   BEGIN_PROTOCOL(protocol) <step 0> RUN_PRODUCTION
\*   <step 1> RUN_PRODUCTION_AND_REPEAT_IF(cond) <last step> END_PROTOCOL
step_code(s, position, cfg) ==
  CASE cfg.protocol = "observation_protocol" -> observation_protocol_step(s, position)
    [] cfg.protocol = "directed_scan_protocol" -> directed_scan_protocol_step(s, position)
    [] cfg.protocol = "gatt_walk_protocol" -> gatt_walk_protocol_step(s, position)
    [] OTHER ->
         LET s1 == IF position = 0 THEN set_current_protocol(s, "protocol") ELSE s
         IN IF cfg.abort THEN ABORT_PROTOCOL(s1)
            ELSE CASE position = 0 -> RUN_PRODUCTION(configure_production(s1, cfg), TRUE)
                   [] position = 1 ->
                        RUN_PRODUCTION_AND_REPEAT_IF(configure_production(s1, cfg), TRUE,
                                                     cfg.cond)
                   [] position = 2 -> END_PROTOCOL(s1, TRUE)

\* PROTOCOL(protocol_name): the frame the function starts with
protocol_entry(s) ==
  [s |-> s, ret |-> TRUE, returned |-> FALSE, steps |-> <<>>, performed |-> <<>>]

\* a step whose macro fell through to the next comparison instead of returning
step_without_return(f, state_compare, cfg) ==
  LET closed(b) == [s |-> b.s, ret |-> b.ret, returned |-> ~b.ret,
                    steps |-> Append(f.steps, state_compare),
                    performed |-> f.performed \o b.performed]
  IN IF f.returned \/ f.s.state # state_compare THEN f
     ELSE closed(step_code(f.s, state_compare, cfg))

\* if (state == state_compare++) { <step code> return ..; }
step(f, state_compare, cfg) ==
  LET closed(b) == [s |-> b.s, ret |-> b.ret, returned |-> TRUE,
                    steps |-> Append(f.steps, state_compare),
                    performed |-> f.performed \o b.performed]
  IN IF f.returned \/ f.s.state # state_compare THEN f
     ELSE closed(step_code(f.s, state_compare, cfg))

\* the protocol function: the comparisons are made in source order
protocol(s, cfg) ==
  LET left(f) == IF f.returned THEN f
                 ELSE [f EXCEPT !.ret = FALSE]   \* no step left: state never exceeds 2
  IN left(step(step(step(protocol_entry(s), 0, cfg), 1, cfg), 2, cfg))

\* the frame a protocol function with a static state of its own returns: the
\* function ran on s.state, which goes back to the static named field.  A call that
\* runs no step reaches the end of the bool function without a return statement: it
\* returns a value the source does not determine, or does not return.
Returning(f, s, field) ==
  [(IF f.returned THEN f ELSE [f EXCEPT !.ret = s.env.indeterminate])
     EXCEPT !.s = [f.s EXCEPT ![field] = f.s.state, !.state = s.state,
                              !.undefined = @ \/ (~f.returned /\ s.env.wild)]]

Observation == [NoStep EXCEPT !.protocol = "observation_protocol"]

DirectedScan == [NoStep EXCEPT !.protocol = "directed_scan_protocol"]

GattWalk == [NoStep EXCEPT !.protocol = "gatt_walk_protocol"]

\* PROTOCOL(observation_protocol) .. END_PROTOCOL
observation_protocol(s) ==
  LET own == [s EXCEPT !.state = s.observation_protocol_state]
  IN Returning(step(step(step(protocol_entry(own), 0, Observation), 1, Observation),
                    2, Observation),
               s, "observation_protocol_state")

\* PROTOCOL(directed_scan_protocol) .. END_PROTOCOL
directed_scan_protocol(s) ==
  LET own == [s EXCEPT !.state = s.directed_scan_protocol_state]
  IN Returning(step(step(step(protocol_entry(own), 0, DirectedScan), 1, DirectedScan),
                    2, DirectedScan),
               s, "directed_scan_protocol_state")

\* PROTOCOL(gatt_walk_protocol) .. END_PROTOCOL
gatt_walk_protocol(s) ==
  LET own == [s EXCEPT !.state = s.gatt_walk_protocol_state]
  IN Returning(step(step(step(step(step(protocol_entry(own), 0, GattWalk), 1, GattWalk),
                              2, GattWalk), 3, GattWalk), 4, GattWalk),
               s, "gatt_walk_protocol_state")

\* (*current_protocol)(): cfg is the step code of the protocol function "protocol"
CallProtocol(s, cfg) ==
  CASE get_current_protocol(s) = "observation_protocol" -> observation_protocol(s)
    [] get_current_protocol(s) = "directed_scan_protocol" -> directed_scan_protocol(s)
    [] get_current_protocol(s) = "gatt_walk_protocol" -> gatt_walk_protocol(s)
    [] OTHER -> protocol(s, cfg)

\* a dispatcher that never calls the protocol function
body_called_never(r) == FALSE

\* a dispatcher that calls the protocol function whatever run_production returned
body_called_on_any_result(r) == get_current_protocol(r.s) # NULL

\* run_current_protocol: case 0 with a current protocol is where the protocol
\* function is called
body_called(r) == r.result = Done /\ get_current_protocol(r.s) # NULL

\* a dispatcher that leaves the protocol current when its function returned false
after_production_ignoring_failure(r, cfg) ==
  IF body_called(r) THEN CallProtocol(r.s, cfg).s ELSE r.s

\* run_current_protocol, after run_production has returned r
after_production(r, cfg) ==
  LET returned(b) == IF ~b.ret THEN clear_current_protocol(b.s) ELSE b.s
  IN IF body_called(r) THEN returned(CallProtocol(r.s, cfg)) ELSE r.s

run_current_protocol(s, pckt, cfg) == after_production(run_production(s, pckt), cfg)

-----------------------------------------------------------------------------------------------------------------------------------------------------
(* Actions *)

\* the rules a step of the protocol registers when it runs in engine state s
AddsOf(s, cfg) ==
  IF cfg.abort \/ s.state >= 2 THEN 0
  ELSE Len(cfg.production.ex) + Len(cfg.production.normal)

\* what is recorded of a call of the protocol function entered with engine s, run
\* with step code cfg and returning frame b
BodyCall(s, cfg, b) ==
  [called |-> TRUE, state |-> s.state, steps |-> b.steps, performed |-> b.performed,
   ret |-> b.ret, cond |-> (1 \in {b.steps[i] : i \in 1..Len(b.steps)}) /\ cfg.cond]

\* an application call outside the event callback
Api(s, adds) ==
  /\ num_added + adds <= MaxAdds
  /\ Install(s)
  /\ num_added' = num_added + adds
  /\ rp' = NoCall
  /\ body_call' = NoCall

Init ==
  /\ action = NULL
  /\ until_condition = NULL
  /\ until_check = no_check
  /\ until_check_event = 0
  /\ production_start = 0
  /\ timeout_milliseconds = 0
  /\ millis = 0
  /\ rule_matched = FALSE
  /\ rules = <<>>
  /\ exclusive_rules = <<>>
  /\ global_rules = <<>>
  /\ current_rule = 0
  /\ current_exclusive_rule = 0
  /\ current_global_rule = 0
  /\ current_protocol = NULL
  /\ state = 0
  /\ production_fired = FALSE
  /\ num_added = 0
  /\ rp = NoCall
  /\ body_call = NoCall
  /\ undefined = FALSE
  /\ hung = FALSE
  /\ main_steps_state = 0
  /\ observation_protocol_state = 0
  /\ directed_scan_protocol_state = 0
  /\ gatt_walk_protocol_state = 0
  /\ device_index = 0
  /\ service_index = 0
  /\ context = ZeroContext
  /\ addr2walk = ZeroAddr
  /\ connection_handle = 0
  /\ num_addrs = 0
  /\ addr_list = <<>>
  /\ connectables = <<>>
  /\ public_addrs = <<>>
  /\ next_addr = 0
  /\ num_records = 0
  /\ device_db = <<>>
  /\ pc = "setup"
  /\ step_log = <<>>
  /\ walk_call = NoCall
  /\ walk_runs = 0
  /\ add_call = NoCall

Expect ==
  \E m \in CodeRules :
    /\ Api(expect(Engine, m.check_type, m.event_code, m.event_action), 1)
    /\ UNCHANGED production_fired

ExpectCondition ==
  \E m \in ConditionRules :
    /\ Api(expect_condition(Engine, m.event_condition, m.event_action), 1)
    /\ UNCHANGED production_fired

ExpectEx ==
  \E m \in CodeRules :
    /\ Api(expect_ex(Engine, m.check_type, m.event_code, m.event_action), 1)
    /\ UNCHANGED production_fired

ExpectExCondition ==
  \E m \in ConditionRules :
    /\ Api(expect_ex_condition(Engine, m.event_condition, m.event_action), 1)
    /\ UNCHANGED production_fired

ExpectGlobally ==
  \E m \in CodeRules :
    /\ Api(expect_globally(Engine, m.check_type, m.event_code, m.event_action), 1)
    /\ UNCHANGED production_fired

ExpectGloballyCondition ==
  \E m \in ConditionRules :
    /\ Api(expect_globally_condition(Engine, m.event_condition, m.event_action), 1)
    /\ UNCHANGED production_fired

\* perform(..) called by the application outside a protocol function
Perform ==
  \E act \in Performs \ {NULL} :
    /\ Api(perform(Engine, act), 0)
    /\ UNCHANGED production_fired

Until ==
  \E f \in UntilMenu :
    /\ Api(until(Engine, f), 0)
    /\ UNCHANGED production_fired

UntilEvent ==
  \E u \in UntilEventMenu :
    /\ Api(until_event(Engine, u.check_type, u.event_code), 0)
    /\ UNCHANGED production_fired

ClearExpectations ==
  /\ Api(clear_expectations(Engine), 0)
  /\ production_fired' = FALSE

ClearExclusiveExpectations ==
  /\ Api(clear_exclusive_expectations(Engine), 0)
  /\ UNCHANGED production_fired

ClearGlobalExpectations ==
  /\ Api(clear_global_expectations(Engine), 0)
  /\ UNCHANGED production_fired

ClearAllExpectations ==
  /\ Api(clear_all_expectations(Engine), 0)
  /\ UNCHANGED production_fired

\* what is recorded of a call of clear_current_protocol made in engine s
ClearCall(s) ==
  [called |-> FALSE, performed |-> <<>>, cleared |-> TRUE,
   was_running |-> s.current_protocol # NULL,
   was_matched |-> s.rule_matched,
   had_production |-> s.rules # <<>> /\ (s.until_condition # NULL \/ s.until_check # no_check)]

ClearCurrentProtocol ==
  /\ Install(clear_current_protocol(Engine))
  /\ UNCHANGED num_added
  /\ rp' = ClearCall(Engine)
  /\ body_call' = NoCall
  /\ production_fired' = FALSE

\* the application starts the protocol by calling its function, while none is running
StartProtocolOf(cfgs) ==
  \E cfg \in cfgs \cap StepConfigsAt(state) :
    /\ ~protocol_running(Engine)
    /\ num_added + AddsOf(Engine, cfg) <= MaxAdds
    /\ \E b \in { protocol(Engine, cfg) } :
         /\ Install(b.s)
         /\ body_call' = BodyCall(Engine, cfg, b)
    /\ num_added' = num_added + AddsOf(Engine, cfg)
    /\ rp' = NoCall
    /\ UNCHANGED production_fired

StartProtocol == StartProtocolOf(StepConfigs)

\* whether a dispatch fired a normal or exclusive rule
FiredExpectation(fired) == \E i \in 1..Len(fired) : fired[i].set # "global"

\* HCI_Event_CB(pckt): run_current_protocol(pckt)
\* (cfgs: the step codes the protocol function may consist of)
DispatchOf(pckt, cfgs) ==
  \E r \in { run_production(Engine, pckt) } :
    LET body == body_called(r)
    IN \E cfg \in IF body THEN cfgs \cap StepConfigsAt(r.s.state) ELSE {NoStep} :
         LET adds == IF body THEN AddsOf(r.s, cfg) ELSE 0
         IN /\ num_added + adds <= MaxAdds
            /\ Install(after_production(r, cfg))
            /\ num_added' = num_added + adds
            /\ rp' = [called |-> TRUE, pckt |-> pckt, result |-> r.result, fired |-> r.fired,
                      until_condition |-> until_condition, until_check |-> until_check,
                      action |-> action, current_protocol |-> current_protocol,
                      state |-> state]
            /\ body_call' = IF body THEN BodyCall(r.s, cfg, CallProtocol(r.s, cfg)) ELSE NoCall
            /\ production_fired' =
                 IF r.result = Done THEN FALSE
                 ELSE production_fired \/ FiredExpectation(r.fired)

Dispatch(pckt) == DispatchOf(pckt, StepConfigs)

RunCurrentProtocol == \E pckt \in Packets : Dispatch(pckt)

\* the engine driven through its API, no protocol involved
NextEngine ==
  \/ Expect
  \/ ExpectCondition
  \/ ExpectEx
  \/ ExpectExCondition
  \/ ExpectGlobally
  \/ ExpectGloballyCondition
  \/ Until
  \/ UntilEvent
  \/ ClearExpectations
  \/ ClearExclusiveExpectations
  \/ ClearGlobalExpectations
  \/ ClearAllExpectations
  \/ RunCurrentProtocol

SpecEngine == Init /\ [][NextEngine]_vars

\* the engine with a perform configured through its API, no protocol involved
NextPerform ==
  \/ Perform
  \/ Expect
  \/ ExpectGloballyCondition
  \/ Until
  \/ ClearExpectations
  \/ RunCurrentProtocol

SpecPerform == Init /\ [][NextPerform]_vars

\* the engine driven by a protocol: global expectations are registered by the
\* application, everything else by the steps of the protocol
Next ==
  \/ ExpectGlobally
  \/ ExpectGloballyCondition
  \/ ClearExpectations
  \/ ClearExclusiveExpectations
  \/ ClearGlobalExpectations
  \/ ClearAllExpectations
  \/ ClearCurrentProtocol
  \/ StartProtocol
  \/ RunCurrentProtocol

Spec == Init /\ [][Next]_vars

\* the engine driven by the protocol alone: the application registers global
\* expectations and starts the protocol while none is running; rules, performs and
\* untils are configured by the steps only
NextProtocol ==
  \/ ExpectGloballyCondition
  \/ StartProtocol
  \/ RunCurrentProtocol

SpecProtocol == Init /\ [][NextProtocol]_vars

\* a protocol all of whose performs succeed; its steps may end in ABORT_PROTOCOL
WorkingConfigs == { c \in StepConfigs : c.perform # "perform_fails" }

WorkingStart == StartProtocolOf(WorkingConfigs)

WorkingDispatch == \E pckt \in Packets : DispatchOf(pckt, WorkingConfigs)

\* a step that dispatches an event which finishes the production, the repeat
\* condition of the protocol step run on it, if it has one, being false
FinishingDispatch ==
  /\ rp'.called
  /\ rp'.result = Done
  /\ body_call'.called => ~body_call'.cond

NextWorking ==
  \/ WorkingStart
  \/ WorkingDispatch

\* the working protocol under events that keep arriving: every production receives
\* an event that finishes it and the repeat condition does not hold for ever, that
\* is, finishing dispatches keep happening
SpecWorking == Init /\ [][NextWorking]_vars /\ []<><<FinishingDispatch>>_vars

\* expect(..) called again and again (these registrations are not counted in
\* num_added)
FillExpect ==
  \E m \in CodeRules :
    /\ Install(expect(Engine, m.check_type, m.event_code, m.event_action))
    /\ rp' = NoCall
    /\ body_call' = NoCall
    /\ UNCHANGED <<num_added, production_fired>>

\* a production filled to the capacity of the normal rule set
NextCapacity ==
  \/ FillExpect
  \/ Until
  \/ RunCurrentProtocol

SpecCapacity == Init /\ [][NextCapacity]_vars

\* events told apart by their payload: vendor events and meta events whose first
\* payload bytes are 01 00 (vendor code
\* EVT_BLUE_HAL_INITIALIZED), 07 04 (EVT_BLUE_GAP_PROCEDURE_COMPLETE) or 02 00,
\* followed by a reason / procedure code byte
MatcherPackets ==
  { EventPckt(e, d) : e \in {EVT_VENDOR, EVT_LE_META_EVENT},
                      d \in { <<1, 0, 1>>, <<1, 0, 2>>, <<7, 4, 1>>, <<7, 4, 2>>, <<2, 0, 0>> } }

\* every check kind, with the codes that occur in those events
CheckKinds ==
  {no_check, event_check, le_meta_event_check, ecode, reset_reason, procedure_complete,
   condition_check}

MatcherCodes ==
  {1, 2, EVT_LE_META_EVENT, EVT_BLUE_GAP_PROCEDURE_COMPLETE}

\* the expectation registered next to the until event
MatcherRules ==
  { [check_type |-> ecode, event_code |-> EVT_BLUE_GAP_PROCEDURE_COMPLETE] }

MatcherExpect ==
  \E m \in MatcherRules :
    /\ Api(expect(Engine, m.check_type, m.event_code, "A1"), 1)
    /\ UNCHANGED production_fired

MatcherUntilEvent ==
  \E check_type \in CheckKinds, event_code \in MatcherCodes :
    /\ Api(until_event(Engine, check_type, event_code), 0)
    /\ UNCHANGED production_fired

MatcherDispatch == \E pckt \in MatcherPackets : Dispatch(pckt)

\* expectations and until events of every check kind, met by vendor and other events
NextMatcher ==
  \/ MatcherExpect
  \/ MatcherUntilEvent
  \/ MatcherDispatch

SpecMatcher == Init /\ [][NextMatcher]_vars

\* the event actions that return false or reconfigure the engine
EventActions == {"A_false", "A_expect", "A_until"}

ActionExpect ==
  \E act \in EventActions :
    /\ Api(expect(Engine, event_check, 16, act), 1)
    /\ UNCHANGED production_fired

ActionExpectEx ==
  /\ Api(expect_ex(Engine, event_check, 16, "A_false"), 1)
  /\ UNCHANGED production_fired

\* expect(.., NO_ACTION, NO_ARGS) and expect_ex(.., NO_ACTION, NO_ARGS)
ExpectNoAction ==
  /\ Api(expect(Engine, event_check, 16, NULL), 1)
  /\ UNCHANGED production_fired

ExpectExNoAction ==
  /\ Api(expect_ex(Engine, event_check, 16, NULL), 1)
  /\ UNCHANGED production_fired

\* an event dispatched while the actions have not grown the rule set past MaxAdds
ActionDispatch ==
  /\ Len(rules) <= MaxAdds
  /\ RunCurrentProtocol

\* productions whose event actions return false, call expect / until, or are absent
NextAction ==
  \/ ActionExpect
  \/ ActionExpectEx
  \/ ExpectNoAction
  \/ ExpectExNoAction
  \/ ExpectGloballyCondition
  \/ Until
  \/ ActionDispatch

SpecAction == Init /\ [][NextAction]_vars

\* instants of the clock and the timeouts the application sets, in milliseconds
Instants == {0, 50, 100, 150}

Timeouts == {0, 100}

SetTimeout ==
  \E ms \in Timeouts :
    /\ Api(set_timeout(Engine, ms), 0)
    /\ UNCHANGED production_fired

\* until(timeout)
UntilTimeout ==
  /\ Api(until(Engine, "timeout"), 0)
  /\ UNCHANGED production_fired

\* time passes between two calls
Tick ==
  \E t \in Instants :
    /\ t > millis
    /\ Api([Engine EXCEPT !.millis = t], 0)
    /\ UNCHANGED production_fired

\* a production that ends by time: set_timeout(..) until(timeout), with or without
\* an until event
NextTimeout ==
  \/ SetTimeout
  \/ UntilTimeout
  \/ UntilEvent
  \/ Expect
  \/ Tick
  \/ RunCurrentProtocol

SpecTimeout == Init /\ [][NextTimeout]_vars

-----------------------------------------------------------------------------
(* Properties of one event dispatch.  They are stated of run_production     *)
(* applied to the engine of a reachable state and to every packet.           *)

Min(S) == CHOOSE x \in S : \A y \in S : x <= y

IsEvent(pckt) == pckt.type = HCI_EVENT_PKT

\* positions of the rules of a set that match the event
Matching(set, pckt) == { i \in 1..Len(set) : fire_rule(Engine, set[i], pckt).do_action }

\* the entries of a firing log that belong to one rule set
FiredIn(fired, set) == SelectSeq(fired, LAMBDA e : e.set = set)

NoUntil == until_condition = NULL /\ until_check = no_check

\* C1: on an event on which at least one exclusive rule matches, exactly one
\* exclusive rule fires, and it is the earliest matching one in insertion order.
C1_ExclusiveFirstMatchOnly ==
  \A pckt \in Packets :
    LET r == run_production(Engine, pckt)
        M == Matching(exclusive_rules, pckt)
        ex == FiredIn(r.fired, "exclusive")
    IN (IsEvent(pckt) /\ M # {}) =>
         /\ Len(ex) = 1
         /\ ex[1].index = Min(M)
         /\ ex[1].action = exclusive_rules[Min(M)].event_action

\* an event was dispatched on which two exclusive rules matched, the earliest of
\* them not the first rule of the set, and one exclusive rule fired
C1_Witness ==
  /\ rp.called
  /\ rp.result # Done
  /\ Cardinality(Matching(exclusive_rules, rp.pckt)) >= 2
  /\ Min(Matching(exclusive_rules, rp.pckt)) > 1
  /\ Len(FiredIn(rp.fired, "exclusive")) = 1

\* C2: on an event on which k normal rules match, exactly those k rules fire, once
\* each, in insertion order, whether or not an exclusive rule fired.
C2_AllMatchingNormalFire ==
  \A pckt \in Packets :
    LET r == run_production(Engine, pckt)
        M == Matching(rules, pckt)
        nm == FiredIn(r.fired, "normal")
    IN IsEvent(pckt) =>
         /\ Len(nm) = Cardinality(M)
         /\ { nm[i].index : i \in 1..Len(nm) } = M
         /\ \A i, j \in 1..Len(nm) : i < j => nm[i].index < nm[j].index
         /\ \A i \in 1..Len(nm) : nm[i].action = rules[nm[i].index].event_action

\* an event was dispatched on which an exclusive rule fired and two normal rules
\* matched and fired
C2_Witness ==
  /\ rp.called
  /\ rp.result # Done
  /\ Cardinality(Matching(rules, rp.pckt)) = 2
  /\ Len(FiredIn(rp.fired, "normal")) = 2
  /\ Len(FiredIn(rp.fired, "exclusive")) = 1

\* C3: no global rule fires in a dispatch in which a normal or exclusive rule fired;
\* otherwise at most one global rule fires, the first matching one in insertion order.
C3_GlobalOnlyAsFallback ==
  \A pckt \in Packets :
    LET r == run_production(Engine, pckt)
        G == Matching(global_rules, pckt)
        g == FiredIn(r.fired, "global")
    IN IsEvent(pckt) =>
         /\ FiredExpectation(r.fired) => Len(g) = 0
         /\ ~FiredExpectation(r.fired) =>
              /\ Len(g) <= 1
              /\ Len(g) = 1 <=> G # {}
              /\ Len(g) = 1 => g[1].index = Min(G)

\* an event was dispatched on which no normal or exclusive rule fired and two
\* global rules matched, the earliest not the first of the set: one global rule fired
C3_Witness ==
  /\ rp.called
  /\ ~FiredExpectation(rp.fired)
  /\ Cardinality(Matching(global_rules, rp.pckt)) >= 2
  /\ Min(Matching(global_rules, rp.pckt)) > 1
  /\ Len(FiredIn(rp.fired, "global")) = 1

\* the firing log the precedence rules prescribe: the first matching exclusive rule,
\* every matching normal rule in insertion order, and the first matching global rule
\* when none of those matched
RECURSIVE MatchingInOrder(_, _, _, _)
MatchingInOrder(set, seq, i, pckt) ==
  IF i > Len(seq) THEN <<>>
  ELSE (IF fire_rule(Engine, seq[i], pckt).do_action THEN << Fired(set, i, seq[i]) >> ELSE <<>>)
         \o MatchingInOrder(set, seq, i + 1, pckt)

FirstOf(seq) == IF seq = <<>> THEN <<>> ELSE << Head(seq) >>

ExpectedFiring(pckt) ==
  LET ex == FirstOf(MatchingInOrder("exclusive", exclusive_rules, 1, pckt))
      nm == MatchingInOrder("normal", rules, 1, pckt)
      gl == FirstOf(MatchingInOrder("global", global_rules, 1, pckt))
  IN IF ex \o nm = <<>> THEN gl ELSE ex \o nm

\* C4: within one dispatch the actions fire in the order: first matching exclusive
\* rule, every matching normal rule in insertion order, then (only if none of those
\* fired) one global rule; with one exclusive and two normal rules all matching and
\* no until, the three fire in that order, rule_matched is true and Done is returned.
C4_FiringOrder ==
  \A pckt \in Packets :
    LET r == run_production(Engine, pckt)
    IN IsEvent(pckt) =>
         /\ r.fired = ExpectedFiring(pckt)
         /\ ( /\ Len(exclusive_rules) = 1
              /\ Len(rules) = 2
              /\ Matching(exclusive_rules, pckt) = {1}
              /\ Matching(rules, pckt) = {1, 2}
              /\ NoUntil ) =>
              /\ r.fired = << Fired("exclusive", 1, exclusive_rules[1]),
                              Fired("normal", 1, rules[1]),
                              Fired("normal", 2, rules[2]) >>
              /\ met_expectations(r.s)
              /\ r.result = Done

\* the dispatch of the example happened: an exclusive rule, then two normal rules
\* fired, and the production finished with rule_matched true
C4_Witness ==
  /\ rp.called
  /\ rp.result = Done
  /\ rp.until_condition = NULL /\ rp.until_check = no_check
  /\ Len(rp.fired) = 3
  /\ rp.fired[1].set = "exclusive"
  /\ rp.fired[2].set = "normal" /\ rp.fired[2].index = 1
  /\ rp.fired[3].set = "normal" /\ rp.fired[3].index = 2
  /\ rule_matched

\* C5: while a protocol runs, met_expectations() at the return of run_production is
\* true iff a normal or exclusive rule has fired during the current production.
C5_MetExpectationsIffFired ==
  \A pckt \in Packets :
    LET r == run_production(Engine, pckt)
    IN (IsEvent(pckt) /\ protocol_running(Engine)) =>
         (met_expectations(r.s) <=> (production_fired \/ FiredExpectation(r.fired)))

\* C6: a dispatch in which only a global rule fires leaves met_expectations() with
\* the value it had before the dispatch.
C6_GlobalLeavesRuleMatched ==
  \A pckt \in Packets :
    LET r == run_production(Engine, pckt)
    IN (IsEvent(pckt) /\ FiredIn(r.fired, "global") # <<>>) =>
         met_expectations(r.s) = rule_matched

\* a global rule fired in the last dispatch and met_expectations() is false
C6_Witness ==
  /\ rp.called
  /\ Len(FiredIn(rp.fired, "global")) = 1
  /\ ~rule_matched
  /\ ~production_fired

\* C7: with no until configured, the first event packet dispatched completes the
\* production: run_production returns Done, whether or not any rule matched.
C7_NoUntilIsSingleShot ==
  \A pckt \in Packets :
    (IsEvent(pckt) /\ NoUntil) => run_production(Engine, pckt).result = Done

\* an event was dispatched with no until configured and no rule matching, and
\* run_production returned Done
C7_Witness ==
  /\ rp.called
  /\ IsEvent(rp.pckt)
  /\ rp.until_condition = NULL /\ rp.until_check = no_check
  /\ rp.fired = <<>>
  /\ rp.result = Done

\* C8: for an event packet run_production returns Done iff no until is configured,
\* or the until predicate returns true on the event, or the until event match
\* matches the event, whether or not any rule fired.
C8_DoneIffUntil ==
  \A pckt \in Packets :
    IsEvent(pckt) =>
      ( run_production(Engine, pckt).result = Done
          <=> \/ NoUntil
              \/ until_condition # NULL /\ CallPredicate(Engine, until_condition, pckt).ret
              \/ until_check # no_check
                   /\ check4event(pckt, until_check, until_check_event) )

\* an until predicate that always returns true was configured, a rule fired on the
\* event, and the production completed on that event
C8_Witness ==
  /\ rp.called
  /\ rp.until_condition = "always_true"
  /\ FiredExpectation(rp.fired)
  /\ rp.result = Done

\* C9: whenever run_production returns Done, the normal and the exclusive rule set
\* are empty and neither an until predicate nor an until event match is configured.
C9_DoneClearsProduction ==
  \A pckt \in Packets :
    LET r == run_production(Engine, pckt)
    IN r.result = Done =>
         /\ r.s.rules = <<>>
         /\ r.s.exclusive_rules = <<>>
         /\ r.s.until_condition = NULL
         /\ r.s.until_check = no_check

\* a production that had an until predicate and an until event match, and whose
\* exclusive and normal rules fired, returned Done and left nothing configured
C9_Witness ==
  /\ rp.called
  /\ rp.result = Done
  /\ rp.until_condition # NULL /\ rp.until_check # no_check
  /\ FiredIn(rp.fired, "exclusive") # <<>> /\ FiredIn(rp.fired, "normal") # <<>>
  /\ rules = <<>> /\ exclusive_rules = <<>>
  /\ until_condition = NULL /\ until_check = no_check

\* C10: the global rule set persists: a step that changes it is a registration of a
\* global rule, which keeps the rules already there, or clear_global_expectations or
\* clear_all_expectations, which empty it; so an event dispatch (a production
\* finishing included), clear_current_protocol, clear_expectations and
\* clear_exclusive_expectations leave it as it was.
C10_GlobalRulesPersist ==
  [][ global_rules' # global_rules =>
        \/ /\ ExpectGlobally \/ ExpectGloballyCondition
           /\ Len(global_rules') = Len(global_rules) + 1
           /\ SubSeq(global_rules', 1, Len(global_rules)) = global_rules
        \/ /\ ClearGlobalExpectations \/ ClearAllExpectations
           /\ global_rules' = <<>> ]_vars

\* a production of a running protocol finished, its rules having fired, and the
\* global rules registered before it are still there
C10_Witness ==
  /\ rp.called
  /\ rp.result = Done
  /\ FiredExpectation(rp.fired)
  /\ state = 2
  /\ Len(global_rules) = 2

-----------------------------------------------------------------------------
(* Properties of the perform and of the protocol stepper.  They are stated  *)
(* of the last call of the protocol function (body_call) and of the last    *)
(* dispatch (rp), in the state the operation left.                           *)

\* the perform invoked by a call succeeded, or none was pending
PerformSucceeded(performed) == performed = <<>> \/ CallAction(Engine, performed[1]).ret

\* the engine holds no production: no normal rule, no exclusive rule, no until
NoProduction(s) ==
  /\ s.rules = <<>>
  /\ s.exclusive_rules = <<>>
  /\ s.until_condition = NULL
  /\ s.until_check = no_check

\* C11: a perform is invoked at most once per production: the call of the protocol
\* function that configures the production invokes at most one perform, and the
\* only dispatch that can precede it in the same operation is the one that
\* finished the production before, so no event has reached the rules the call
\* configured; a dispatch that leaves the production running invokes none, however
\* many there are; and once invoked the perform is consumed, whether it returned
\* true or false: no perform is pending after any operation.
C11_PerformAtMostOncePerProduction ==
  /\ action = NULL
  /\ body_call.called => Len(body_call.performed) <= 1
  /\ (rp.called /\ rp.result # Done) => body_call.performed = <<>>
  /\ \A pckt \in Packets : run_production(Engine, pckt).s.action = action

\* a production whose perform returned false was configured by a call made on Done,
\* and the perform is no longer pending
C11_Witness ==
  /\ rp.called
  /\ body_call.called
  /\ body_call.performed = <<"perform_fails">>
  /\ action = NULL

\* C12: on the first dispatch of a production for which a perform is pending,
\* run_production invokes that perform exactly once (and it is then consumed); with
\* a perform that returns true, no rules and no until, one event gives Done and
\* leaves rule_matched false.
C12_FirstDispatchInvokesPerform ==
  (rp.called /\ IsEvent(rp.pckt) /\ rp.action # NULL) =>
     /\ body_call.performed = <<rp.action>>
     /\ action = NULL

\* C13: when the perform of a step returns false the protocol is aborted: no
\* protocol is current, the normal and exclusive rules and the until that the step
\* configured are cleared, and the next event fires global rules only.
C13_PerformFailureAborts ==
  (body_call.called /\ ~PerformSucceeded(body_call.performed)) =>
     /\ ~protocol_running(Engine)
     /\ current_protocol = NULL
     /\ NoProduction(Engine)
     /\ state = body_call.state
     /\ \A pckt \in Packets :
          LET r == run_production(Engine, pckt)
          IN /\ FiredIn(r.fired, "global") = r.fired
             /\ IsEvent(pckt) => r.result = Done

\* the step that RUN_PRODUCTION_AND_REPEAT_IF closes was entered on Done, its perform
\* returned false, and a global rule is there for the next event
C13_Witness ==
  /\ rp.called
  /\ body_call.called
  /\ body_call.state = 1
  /\ body_call.performed = <<"perform_fails">>
  /\ Len(global_rules) >= 1

\* C14: a call of the protocol function runs the code of exactly one step, the
\* one whose position in the source equals the step index at entry, and the step
\* index it leaves is the same, the next one, or 0 after the last step.
C14_OneStepPerInvocation ==
  body_call.called =>
     /\ body_call.steps = <<body_call.state>>
     /\ state \in {body_call.state, body_call.state + 1, 0}
     /\ state = 0 => body_call.state \in {0, 2}

\* the second step ran in a call made on Done and advanced to the last step
C14_Witness ==
  /\ rp.called
  /\ body_call.called
  /\ body_call.state = 1
  /\ body_call.steps = <<1>>
  /\ state = 2

\* C15 as stated: the step index advances only with an event-triggered Done, never
\* in a call of the protocol function made with no event in between.
C15_NoAdvanceWithoutDone ==
  [][ state' # state => (rp'.called /\ rp'.result = Done) ]_vars

\* C15: the step index changes only in a call of the protocol function, by the
\* one step that call runs, with or without an event before it; while a protocol
\* is current the function is called by the dispatcher only, on Done (the
\* application calls it only when no protocol is running), so the step index of a
\* running protocol changes only with an event-triggered Done.
C15_AdvanceOnlyInBodyCall ==
  [][ state' # state =>
        /\ body_call'.called
        /\ body_call'.state = state
        /\ current_protocol # NULL => (rp'.called /\ rp'.result = Done) ]_vars

\* the application called the protocol function with no event dispatched, at a
\* step index left by an aborted run, and the call advanced it
C15_Witness ==
  /\ ~rp.called
  /\ body_call.called
  /\ body_call.state = 1
  /\ state = 2

\* the last call of the protocol function ran the step at a position and was not
\* cut short by ABORT_PROTOCOL
RanStep(position) ==
  /\ body_call.called
  /\ body_call.steps = <<position>>
  /\ body_call.ret

\* C16: at RUN_PRODUCTION the step index is incremented by exactly one if the
\* perform of the step succeeded or none was pending, and the protocol stays
\* current; if the perform failed the step index is not incremented and the
\* protocol is aborted.
C16_AdvanceYield ==
  RanStep(0) =>
     IF PerformSucceeded(body_call.performed)
       THEN state = body_call.state + 1 /\ current_protocol = "protocol"
       ELSE state = body_call.state /\ current_protocol = NULL /\ NoProduction(Engine)

\* the first step ran with a perform that succeeded and the step index advanced
C16_Witness ==
  /\ RanStep(0)
  /\ body_call.performed = <<"perform_ok">>
  /\ state = 1
  /\ rules # <<>>

\* C17: at RUN_PRODUCTION_AND_REPEAT_IF(cond) with a perform that succeeded (or
\* none pending) the step index is incremented iff cond is false; while cond is
\* true it is unchanged and the next call runs the same step again; if the perform
\* failed the protocol is aborted.
C17_ConditionalRepeatYield ==
  RanStep(1) =>
     IF PerformSucceeded(body_call.performed)
       THEN /\ state = (IF body_call.cond THEN body_call.state ELSE body_call.state + 1)
            /\ body_call.cond =>
                 \A cfg \in StepConfigsAt(state) :
                   ~cfg.abort => protocol(Engine, cfg).steps = <<1>>
       ELSE /\ state = body_call.state
            /\ current_protocol = NULL
            /\ NoProduction(Engine)

\* the repeating step was run again on Done, its condition still true, and the
\* step index stayed
C17_Witness ==
  /\ rp.called
  /\ rp.state = 1
  /\ RanStep(1)
  /\ body_call.cond
  /\ body_call.performed = <<"perform_ok">>
  /\ state = 1
  /\ current_protocol = "protocol"

\* C18: when the last step (END_PROTOCOL) runs, the step index is reset to 0, no
\* protocol is current, the normal and exclusive rules and the until are cleared,
\* the function returns the protocol-success flag, and the next call starts again
\* at the first step.
C18_TerminalStep ==
  RanStep(2) =>
     /\ state = 0
     /\ ~protocol_running(Engine)
     /\ NoProduction(Engine)
     /\ \A cfg \in StepConfigsAt(state) : protocol(Engine, cfg).steps = <<0>>

\* the last step ran in a call made on Done while the protocol was current
C18_Witness ==
  /\ rp.called
  /\ rp.current_protocol = "protocol"
  /\ RanStep(2)
  /\ state = 0

\* C19: run_current_protocol calls the protocol function for an event exactly when
\* run_production returned Done on it and a protocol was current, and then once
\* (one step runs); on Advanced and NoMatch it does not call it and leaves the step
\* index and the current protocol as they were.
C19_BodyCalledOnDoneOnly ==
  rp.called =>
     /\ body_call.called <=> (rp.result = Done /\ rp.current_protocol # NULL)
     /\ body_call.called => (Len(body_call.steps) = 1 /\ body_call.state = rp.state)
     /\ rp.result \in {Advanced, NoMatch} =>
          /\ state = rp.state
          /\ current_protocol = rp.current_protocol

\* a rule of the running protocol fired on an event that did not end the
\* production, and the protocol function was not called
C19_Witness ==
  /\ rp.called
  /\ rp.result = Advanced
  /\ rp.current_protocol = "protocol"
  /\ ~body_call.called
  /\ state = 1

\* C20: when the protocol function called by run_current_protocol returns false,
\* run_current_protocol leaves no protocol current, no normal or exclusive rule
\* and no until.
C20_FailedBodyClearsProtocol ==
  (rp.called /\ body_call.called /\ ~body_call.ret) =>
     /\ ~protocol_running(Engine)
     /\ current_protocol = NULL
     /\ NoProduction(Engine)

\* the running protocol aborted at its second step, in a call made on Done
C20_Witness ==
  /\ rp.called
  /\ rp.current_protocol = "protocol"
  /\ body_call.called
  /\ ~body_call.ret
  /\ body_call.state = 1
  /\ current_protocol = NULL

-----------------------------------------------------------------------------
(* Properties of clear_current_protocol and of the results of a dispatch *)

\* C21: clear_current_protocol, in whatever state it is called, leaves both the
\* normal and the exclusive rule set empty, no until predicate and no until event
\* match configured, rule_matched false, and protocol_running() false.
C21_ClearCurrentProtocolClearsAll ==
  /\ LET s == clear_current_protocol(Engine)
     IN NoProduction(s) /\ ~met_expectations(s) /\ ~protocol_running(s)
  /\ "cleared" \in DOMAIN rp =>
       NoProduction(Engine) /\ ~met_expectations(Engine) /\ ~protocol_running(Engine)

\* clear_current_protocol was called while a protocol was running a production
\* with rules and an until, one of whose rules had fired
C21_Witness ==
  /\ "cleared" \in DOMAIN rp
  /\ rp.was_running
  /\ rp.was_matched
  /\ rp.had_production

\* C22: a packet that is not an event packet is a no-op for run_production: it
\* returns NoMatch, fires no rule, does not evaluate the until, and leaves the
\* rule sets, the until, rule_matched, the current protocol and the step index as
\* they were; the dispatcher does not call the protocol function on it.
C22_NonEventPacketIsNoOp ==
  /\ \A pckt \in Packets :
       ~IsEvent(pckt) =>
          /\ run_production(Engine, pckt) = [s |-> Engine, result |-> NoMatch, fired |-> <<>>]
          /\ \A cfg \in StepConfigs : run_current_protocol(Engine, pckt, cfg) = Engine
  /\ (rp.called /\ ~IsEvent(rp.pckt)) =>
       /\ rp.result = NoMatch
       /\ rp.fired = <<>>
       /\ ~body_call.called
       /\ state = rp.state
       /\ current_protocol = rp.current_protocol
       /\ until_condition = rp.until_condition
       /\ until_check = rp.until_check

\* a packet that is not an event packet was dispatched to a running protocol whose
\* production has an until and a rule that an event with the same bytes matches
C22_Witness ==
  /\ rp.called
  /\ ~IsEvent(rp.pckt)
  /\ current_protocol = "protocol"
  /\ until_condition # NULL
  /\ Matching(rules, [rp.pckt EXCEPT !.type = HCI_EVENT_PKT]) # {}

\* C26: when an event does not finish the production, run_production returns
\* Advanced if a rule fired on it and NoMatch if none fired; with a normal rule on
\* an event code and an until on another code, events of the first code fire the
\* rule and give Advanced, and the event of the until code gives Done and leaves
\* the normal set empty.
C26_AdvancedIffRuleFired ==
  \A pckt \in Packets :
    LET r == run_production(Engine, pckt)
    IN /\ r.result \in {Done, Advanced, NoMatch}
       /\ (IsEvent(pckt) /\ r.result # Done) =>
            /\ r.result = Advanced <=> r.fired # <<>>
            /\ r.result = NoMatch <=> r.fired = <<>>
            /\ r.s.rules = rules
       /\ (IsEvent(pckt) /\ until_condition = "event_is_03" /\ until_check = no_check) =>
            /\ pckt.evt = 3 => (r.result = Done /\ r.s.rules = <<>>)
            /\ (pckt.evt # 3 /\ Matching(rules, pckt) # {}) => r.result = Advanced

\* the rule fired on a second event in a row, the until not yet true: Advanced
C26_Witness ==
  /\ rp.called
  /\ rp.result = Advanced
  /\ rp.until_condition = "event_is_03"
  /\ FiredIn(rp.fired, "normal") # <<>>
  /\ rule_matched
  /\ \E pckt \in Packets : run_production(Engine, pckt).result = Done
  /\ \E pckt \in Packets :
       IsEvent(pckt) /\ run_production(Engine, pckt).result = NoMatch

-----------------------------------------------------------------------------
(* Properties of the timeout *)

\* the until event of the engine does not match the event
UntilEventAbsent(pckt) ==
  ~(until_check # no_check /\ check4event(pckt, until_check, until_check_event))

\* C24 (as stated): a production with a configured timeout is finished once the
\* timeout has elapsed: with timeout_ms = 100 started at t = 0 and an until event
\* that does not arrive, an event dispatched at t = 50 does not return Done and an
\* event dispatched at t = 150 returns Done.
C24_TimeoutFinishesProduction ==
  \A pckt \in Packets :
    (/\ IsEvent(pckt)
     /\ timeout_milliseconds = 100 /\ production_start = 0
     /\ until_condition \in {NULL, "timeout"}
     /\ until_check # no_check /\ UntilEventAbsent(pckt)) =>
       /\ millis = 50 => run_production(Engine, pckt).result # Done
       /\ millis = 150 => run_production(Engine, pckt).result = Done

\* C24 (amended): the timeout finishes a production only as its until predicate
\* (set_timeout(ms); until(timeout)): then an event on which the until event does
\* not match returns Done iff more than ms milliseconds have passed since
\* set_timeout; with ms = 100 set at t = 0, not at t = 50 and Done at t = 150.
\* Without until(timeout) the timeout is never looked at.
C24_TimeoutAsUntilFinishesProduction ==
  \A pckt \in Packets :
    (IsEvent(pckt) /\ UntilEventAbsent(pckt)) =>
       LET r == run_production(Engine, pckt)
       IN /\ until_condition = "timeout" =>
               /\ r.result = Done <=> millis - production_start > timeout_milliseconds
               /\ (timeout_milliseconds = 100 /\ production_start = 0 /\ millis = 50) =>
                    r.result # Done
               /\ (timeout_milliseconds = 100 /\ production_start = 0 /\ millis = 150) =>
                    r.result = Done
          /\ (until_condition = NULL /\ until_check # no_check) => r.result # Done

\* an event was dispatched 50 ms after set_timeout(100), with until(timeout) and an
\* until event that did not arrive: not Done; the same event 150 ms after gives Done
C24_Witness ==
  /\ rp.called
  /\ IsEvent(rp.pckt)
  /\ rp.result # Done
  /\ until_condition = "timeout"
  /\ until_check # no_check
  /\ timeout_milliseconds = 100
  /\ production_start = 0
  /\ millis = 50
  /\ run_production([Engine EXCEPT !.millis = 150], rp.pckt).result = Done

\* C25: with a timeout of zero milliseconds configured (set_timeout(0);
\* until(timeout)), the first event dispatched finishes the production, whatever
\* time has passed since the timeout was set.
C25_ZeroTimeoutFinishesAtOnce ==
  \A pckt \in Packets :
    (/\ IsEvent(pckt)
     /\ until_condition = "timeout"
     /\ timeout_milliseconds = 0
     /\ production_start > 0) =>
       run_production(Engine, pckt).result = Done

-----------------------------------------------------------------------------
(* Properties of the capacity of the rule sets *)

\* C23: each rule set holds at most MAX_RULES rules in every reachable state: an
\* add made when the set already holds MAX_RULES rules is rejected and leaves the
\* engine as it was, and an add made below MAX_RULES is stored.
C23_RuleSetsWithinCapacity ==
  /\ Len(rules) <= MAX_RULES
  /\ Len(exclusive_rules) <= MAX_RULES
  /\ Len(global_rules) <= MAX_RULES
  /\ \A m \in CodeRules :
       LET s == expect(Engine, m.check_type, m.event_code, m.event_action)
       IN IF Len(rules) >= MAX_RULES THEN s = Engine
          ELSE Len(s.rules) = Len(rules) + 1

-----------------------------------------------------------------------------
(* Properties of the event matcher *)

\* the checks configured in the engine: those of its rules and its until event
ConfiguredChecks ==
  { [check_type |-> rules[i].check_type, event_code |-> rules[i].event_code] :
      i \in 1..Len(rules) }
    \cup { [check_type |-> until_check, event_code |-> until_check_event] }

\* the 16-bit vendor code at offset 0 of the payload, the byte that follows it
VendorCode(event_pckt) == event_pckt.data[1] + 256 * event_pckt.data[2]

VendorByte(event_pckt) == event_pckt.data[3]

\* the matcher table
MatcherTable(event_pckt, check_type, event_code) ==
  CASE check_type = event_check -> event_pckt.evt = event_code
    [] check_type = le_meta_event_check ->
         event_pckt.evt = EVT_LE_META_EVENT /\ event_pckt.data[1] = event_code
    [] check_type = ecode ->
         event_pckt.evt = EVT_VENDOR /\ VendorCode(event_pckt) = event_code
    [] check_type = reset_reason ->
         /\ event_pckt.evt = EVT_VENDOR
         /\ VendorCode(event_pckt) = EVT_BLUE_HAL_INITIALIZED
         /\ VendorByte(event_pckt) = event_code
    [] check_type = procedure_complete ->
         /\ event_pckt.evt = EVT_VENDOR
         /\ VendorCode(event_pckt) = EVT_BLUE_GAP_PROCEDURE_COMPLETE
         /\ VendorByte(event_pckt) = event_code
    [] OTHER -> FALSE

\* C27: an ecode check matches an event iff the event is a vendor event and its
\* 16-bit vendor code equals the code of the check; an event of any other type
\* never matches it.
C27_EcodeMatchesVendorEventsOnly ==
  \A pckt \in MatcherPackets : \A c \in ConfiguredChecks :
    c.check_type = ecode =>
      /\ check4event(pckt, c.check_type, c.event_code)
           <=> MatcherTable(pckt, c.check_type, c.event_code)
      /\ pckt.evt # EVT_VENDOR => ~check4event(pckt, c.check_type, c.event_code)

\* C28: for the check kinds other than ecode, check4event agrees with the matcher
\* table on every event: event_check on the event type, le_meta_event_check on the
\* subevent of a meta event, reset_reason on the reason byte of a vendor
\* HAL-initialized event, procedure_complete on the procedure code of a vendor
\* procedure-complete event; no_check and condition_check never match.
C28_MatcherAgreesWithTable ==
  \A pckt \in MatcherPackets : \A c \in ConfiguredChecks :
    c.check_type # ecode =>
      (check4event(pckt, c.check_type, c.event_code)
         <=> MatcherTable(pckt, c.check_type, c.event_code))

-----------------------------------------------------------------------------
(* Properties of the event actions *)

\* C29: what an action writes during a dispatch takes effect from the next
\* dispatch only: the rules evaluated against an event are those registered when
\* the dispatch began, and so is the until that decides whether it finishes.
C29_ActionWritesDeferred ==
  \A pckt \in Packets :
    IsEvent(pckt) =>
      LET r == run_production(Engine, pckt)
      IN /\ \A i \in 1..Len(r.fired) :
              r.fired[i].set = "normal" => r.fired[i].index <= Len(rules)
         /\ r.result = Done <=> ~keep_running(Engine, pckt).ret

\* the engine with every false-returning event action replaced by one that returns true
ReturningTrue(set) ==
  [i \in 1..Len(set) |->
     IF set[i].event_action = "A_false" THEN [set[i] EXCEPT !.event_action = "A1"]
     ELSE set[i]]

WithTrueActions(s) ==
  [s EXCEPT !.rules = ReturningTrue(@), !.exclusive_rules = ReturningTrue(@),
            !.global_rules = ReturningTrue(@)]

\* the rules a dispatch fired, by set and position
FiredPositions(fired) == [i \in 1..Len(fired) |-> <<fired[i].set, fired[i].index>>]

\* the engine with a protocol running at a step (run_production reads neither the
\* protocol nor its step, so this is the engine after the dispatch of an event to
\* that protocol)
Running(s, position) == [s EXCEPT !.current_protocol = "protocol", !.state = position]

\* C30: what an event action returns is not propagated: with the actions that
\* return false replaced by actions that return true, a dispatch gives the same
\* result, fires the same rules (so the same global rules are suppressed), leaves
\* the same rule_matched, and leaves a running protocol at the same step.
C30_ActionReturnIgnored ==
  /\ \A pckt \in Packets :
       LET a == run_production(Engine, pckt)
           b == run_production(WithTrueActions(Engine), pckt)
       IN /\ a.result = b.result
          /\ FiredPositions(a.fired) = FiredPositions(b.fired)
          /\ a.s.rule_matched = b.s.rule_matched
          /\ b.s = WithTrueActions(a.s)
          /\ \A position \in 0..2 :
               LET c == after_production([a EXCEPT !.s = Running(@, position)], NoStep)
                   d == after_production([b EXCEPT !.s = Running(@, position)], NoStep)
               IN c.current_protocol = d.current_protocol /\ c.state = d.state
  /\ (rp.called /\ \E i \in 1..Len(rp.fired) :
                     rp.fired[i].action = "A_false" /\ rp.fired[i].set # "global") =>
       /\ rp.result \in {Done, Advanced}
       /\ rule_matched
       /\ FiredIn(rp.fired, "global") = <<>>

\* a dispatch fired a rule whose action returned false, with the until not yet
\* true: Advanced, rule_matched set, the matching global rule not fired
C30_Witness ==
  /\ rp.called
  /\ rp.result = Advanced
  /\ \E i \in 1..Len(rp.fired) : rp.fired[i].action = "A_false"
  /\ \A i \in 1..Len(rp.fired) : rp.fired[i].action = "A_false"
  /\ rule_matched
  /\ Matching(global_rules, rp.pckt) # {}

-----------------------------------------------------------------------------
(* Properties of adds below the capacity *)

\* C31: in every reachable state, also after productions have been dispatched and
\* have finished, an add made while the normal set holds fewer than MAX_RULES
\* rules succeeds: the rule is appended at the end of the set, the count grows by
\* one, and the next dispatch evaluates it.
C31_AddBelowCapacitySucceeds ==
  \A m \in CodeRules :
    Len(rules) < MAX_RULES =>
      LET s == expect(Engine, m.check_type, m.event_code, m.event_action)
      IN /\ s.rules = Append(rules, set_expect(m.check_type, m.event_code, m.event_action))
         /\ \A pckt \in Packets :
              (IsEvent(pckt) /\ pckt.evt = m.event_code) =>
                 \E i \in 1..Len(run_production(s, pckt).fired) :
                    /\ run_production(s, pckt).fired[i].set = "normal"
                    /\ run_production(s, pckt).fired[i].index = Len(rules) + 1

-----------------------------------------------------------------------------
(* Properties of a protocol after an abort, and of the timeout after Done *)

\* the last operation was a call of the protocol function by the application
StartedByApplication == body_call.called /\ ~rp.called

\* C32: whenever the protocol function is started by the application (no protocol
\* running, also after an abort by ABORT_PROTOCOL, by a body that returned false
\* or by a failed perform), it begins at its first step: BEGIN_PROTOCOL runs,
\* so the protocol becomes current unless that step aborts, and no step index
\* left by an aborted run is resumed.
C32_StartBeginsAtFirstStep ==
  StartedByApplication =>
     /\ body_call.state = 0
     /\ body_call.steps = <<0>>
     /\ (body_call.ret /\ PerformSucceeded(body_call.performed)) =>
          current_protocol = "protocol"

\* C33: when rules and untils are configured by protocol steps only and the
\* protocol is started only while none is running, then whenever
\* protocol_running() is false the normal and exclusive rule sets are empty and
\* no until predicate and no until event is configured.
C33_NoProductionWithoutProtocol ==
  ~protocol_running(Engine) => NoProduction(Engine)

\* the engine with the statics of the timeout as they are at the start of the board
TimeoutCleared(s) == [s EXCEPT !.production_start = 0, !.timeout_milliseconds = 0]

\* C34: when run_production returns Done the timeout is cleared with the until:
\* the start instant and the duration set for the finished production do not
\* decide when a later production, whatever its until, finishes.
C34_DoneClearsTimeout ==
  (rp.called /\ rp.result = Done) =>
     /\ Engine = TimeoutCleared(Engine)
     /\ \A pckt \in Packets : \A t \in Instants :
          t >= millis =>
            run_production(until([Engine EXCEPT !.millis = t], "timeout"), pckt).result
              = run_production(until(TimeoutCleared([Engine EXCEPT !.millis = t]), "timeout"),
                               pckt).result

-----------------------------------------------------------------------------
(* Liveness of a protocol *)

\* the last operation called the protocol function, which ran the step at position
\* and left through ABORT_PROTOCOL (the performs succeed, so nothing else returns false)
AbortedAt(position) ==
  body_call.called /\ body_call.steps = <<position>> /\ ~body_call.ret

\* C35, as the claim states it: a started protocol whose performs all succeed, whose
\* productions each receive an event that finishes them and whose repeat condition
\* becomes false eventually runs its terminal step, after which protocol_running()
\* is false; and every Done of a running protocol calls the protocol function at
\* the step index the protocol had reached.  A protocol that has stopped running
\* runs no step any more, so that the claim has a protocol stop running in its
\* terminal step only (the second conjunct).
C35_ProtocolEventuallyFinishes ==
  /\ [](  (rp.called /\ rp.result = Done /\ rp.current_protocol # NULL) =>
            (body_call.called /\ body_call.steps = <<rp.state>>)  )
  /\ [][ (protocol_running(Engine) /\ ~protocol_running(Engine)') =>
           (body_call'.called /\ body_call'.steps = <<2>>) ]_vars
  /\ protocol_running(Engine) ~>
       (~protocol_running(Engine) /\ body_call.called /\ body_call.steps = <<2>>)

\* C35, amended: under the same hypotheses a started protocol eventually stops
\* running, so that protocol_running() is false and the loop of
\* wait_for_protocol_finish is left: through its terminal step, or through a step
\* that ended in ABORT_PROTOCOL, after which the dispatcher cleared the protocol and
\* the terminal step was not run; a protocol stops running in no other way; and
\* every Done of a running protocol calls the protocol function at the step index
\* the protocol had reached.
C35_ProtocolEventuallyStops ==
  /\ [](  (rp.called /\ rp.result = Done /\ rp.current_protocol # NULL) =>
            (body_call.called /\ body_call.steps = <<rp.state>>)  )
  /\ protocol_running(Engine) ~>
       (/\ ~protocol_running(Engine)
        /\ wait_for_protocol_finish(Engine)
        /\ rp.called /\ rp.result = Done
        /\ \/ body_call.called /\ body_call.steps = <<2>> /\ body_call.ret
           \/ \E position \in 0..2 : AbortedAt(position))
  /\ [][ (protocol_running(Engine) /\ ~protocol_running(Engine)') =>
           /\ rp'.called /\ rp'.result = Done
           /\ body_call'.called
           /\ body_call'.steps = <<state>>
           /\ body_call'.ret => state = 2 ]_vars

\* the protocol, started by the application, has run its three steps and is over:
\* the last dispatch gave Done and ran the terminal step
C35_Witness ==
  /\ rp.called
  /\ rp.result = Done
  /\ rp.current_protocol = "protocol"
  /\ rp.state = 2
  /\ body_call.called
  /\ body_call.steps = <<2>>
  /\ body_call.ret
  /\ ~protocol_running(Engine)
  /\ wait_for_protocol_finish(Engine)
  /\ state = 0

-----------------------------------------------------------------------------
(* protocol.h: the STEP_FUNCTION macros.  A step function keeps a static   *)
(* counter (state) of the next step to run; each call compares it with a   *)
(* local counter (state_compare) that grows by one at every step.          *)
(* part_005: main_steps, the step function of the sketch.                  *)

\* number of records the model lets the database grow to
MaxRecords == 4

\* main_steps has four steps: FIRST_STEP and three NEXT_STEP
NumSteps == 4

\* SKIP_STEPS_IF(condition_arg): if (condition_arg) return;  TRUE when the call returns
SKIP_STEPS_IF(condition_arg) == condition_arg

\* mutant: the repeat condition is not looked at
REPEAT_STEP_NEVER(condition_arg) == FALSE

\* REPEAT_STEP_WHILE(condition_arg): if (condition_arg) return;  TRUE when the call returns
REPEAT_STEP_WHILE(condition_arg) == condition_arg

\* RETURN_STEP: { state++; return; }
RETURN_STEP(st) == (st + 1) % 65536

\* NEXT_STEP and END_STEP_FUNCTION close a step: state++; return;
NEXT_STEP(st) == (st + 1) % 65536

\* what is recorded of a call of gatt_walk_protocol entered with statics s and
\* returning frame b
WalkCall(s, b) ==
  [called |-> TRUE, performed |-> b.performed, state |-> s.gatt_walk_protocol_state,
   num_records |-> s.num_records, device_db |-> s.device_db,
   steps |-> b.steps, ret |-> b.ret,
   action_ret |-> b.performed = <<>> \/ CallAction(s, b.performed[1]).ret]

\* the code of step state_compare of main_steps, up to the macro that closes it: the
\* statics it leaves, is_next_addr (the condition of REPEAT_STEP_WHILE in the third
\* step) and the call of gatt_walk_protocol it made.  DB_set_lvl, BlueNRG_RST,
\* dump_device_db and print_device_db write no static of the model.
main_steps_step(s, state_compare) ==
  CASE state_compare = 0 ->
         [s |-> directed_scan_protocol(s).s, is_next_addr |-> FALSE, walk |-> NoCall]
    [] state_compare = 1 ->
         [s |-> addr_enumeration_start(s), is_next_addr |-> FALSE, walk |-> NoCall]
    [] state_compare = 2 ->
         LET walked(e, b) == [s |-> b.s, is_next_addr |-> e.is_next, walk |-> WalkCall(e.s, b)]
             enumerated(e) ==
               IF e.is_next /\ e.connectable = 1 /\ e.public_addr = 1
                 THEN walked(e, gatt_walk_protocol(e.s))
                 ELSE [s |-> e.s, is_next_addr |-> e.is_next, walk |-> NoCall]
         IN enumerated(addr_enumeration_next(s))
    [] state_compare = 3 ->
         [s |-> s, is_next_addr |-> FALSE, walk |-> NoCall]

\* the step numbered state_compare, run to the return that leaves it
run_step(s, state_compare) ==
  LET closed(b) ==
        [s |-> IF state_compare = 2 /\ REPEAT_STEP_WHILE(b.is_next_addr) THEN b.s
               ELSE [b.s EXCEPT !.main_steps_state = NEXT_STEP(@)],
         ran |-> <<state_compare>>,
         is_next_addr |-> b.is_next_addr, walk |-> b.walk]
  IN closed(main_steps_step(s, state_compare))

\* mutant: a step that does not return when it closes, so that the incremented counter
\* matches the next comparison in the same call
RECURSIVE steps_falling_through(_, _)
steps_falling_through(s, state_compare) ==
  IF state_compare = NumSteps
    THEN [s |-> s, ran |-> <<>>, is_next_addr |-> FALSE, walk |-> NoCall]
  ELSE IF s.main_steps_state = state_compare
    THEN LET r == run_step(s, state_compare)
             rest == steps_falling_through(r.s, state_compare + 1) IN
         IF r.s.main_steps_state = s.main_steps_state THEN r
         ELSE [rest EXCEPT !.ran = r.ran \o @]
    ELSE steps_falling_through(s, state_compare + 1)

\* FIRST_STEP / NEXT_STEP: if (state == state_compare++) { ... state++; return; }
\* from the comparison number state_compare on
RECURSIVE steps_from(_, _)
steps_from(s, state_compare) ==
  IF state_compare = NumSteps
    THEN [s |-> s, ran |-> <<>>, is_next_addr |-> FALSE, walk |-> NoCall]
  ELSE IF s.main_steps_state = state_compare THEN run_step(s, state_compare)
  ELSE steps_from(s, state_compare + 1)

\* STEP_FUNCTION(main_steps) SKIP_STEPS_IF(protocol_running()) ... END_STEP_FUNCTION
main_steps(s) ==
  IF SKIP_STEPS_IF(protocol_running(s))
    THEN [s |-> s, ran |-> <<>>, is_next_addr |-> FALSE, walk |-> NoCall]
    ELSE steps_from(s, 0)

\* set_global_expectations()
set_global_expectations(s) ==
  expect_globally_condition(
    expect_globally_condition(s, "check_initialization_or_reset", NULL),
    "check_event", NULL)

-----------------------------------------------------------------------------
(* part_005: the sketch.  setup() runs once; loop() calls main_steps() and  *)
(* then HCI_Process(), which hands each event received to HCI_Event_CB.     *)

\* the events the BLE stack sends
HalInitialized == EventPckt(EVT_VENDOR, <<1, 0, RESET_NORMAL>>)

AdvertisingReport(evt_type, bdaddr_type, bdaddr) ==
  EventPckt(EVT_LE_META_EVENT, <<2, 1, evt_type, bdaddr_type>> \o bdaddr \o <<0, 0>>)

GapProcedureComplete(procedure_code) == EventPckt(EVT_VENDOR, <<7, 4, procedure_code, 0>>)

ConnectionComplete(status) == EventPckt(EVT_LE_META_EVENT, <<EVT_LE_CONN_COMPLETE, status, 1, 8>>)

\* an attribute with an invalid handle range (9..5) followed by a valid one (6..8);
\* the attributes are six bytes long
ReadByGroupTypeResp ==
  EventPckt(EVT_VENDOR, <<10, 12, 1, 8, 12, 6, 9, 0, 5, 0, 0, 24, 6, 0, 8, 0, 1, 24>>)

\* one handle-value pair of seven bytes
ReadByTypeResp == EventPckt(EVT_VENDOR, <<6, 12, 1, 8, 7, 7, 2, 0, 2, 3, 0, 0, 42>>)

\* a list announced with length 255 and pairs of six bytes: the eight-bit index of
\* print_attr_list takes the even values only and never reaches 255
ReadByTypeRespWrapping == EventPckt(EVT_VENDOR, <<6, 12, 1, 8, 255, 6>>)

GattProcedureComplete == EventPckt(EVT_VENDOR, <<16, 12, 1, 8, 1, 0>>)

ConnUpdReq == EventPckt(EVT_VENDOR, <<2, 8, 1, 8, 11, 1, 8, 0, 6, 0, 6, 0, 0, 0, 100, 0>>)

DisconnComplete == EventPckt(EVT_DISCONN_COMPLETE, <<0, 1, 8, 22>>)

\* the events of a scan: connectable reports from public addresses, and reports from
\* random addresses whose type (3) is none of those process_advertising_info takes for
\* connectable
ScanPackets ==
  { HalInitialized, GapProcedureComplete(GAP_GENERAL_DISCOVERY_PROC) }
    \cup { AdvertisingReport(ADV_IND, PUBLIC_ADDR, a) : a \in Addresses }
    \cup { AdvertisingReport(3, RANDOM_ADDR, a) : a \in Addresses }

\* the address that advertises while the sketch walks
WalkAddresses == { <<1, 0, 0, 0, 0, 0>> }

\* the events of a scan that finds connectable public addresses, and of the walks
WalkPackets ==
  { HalInitialized, GapProcedureComplete(GAP_GENERAL_DISCOVERY_PROC),
    ConnectionComplete(0), ConnectionComplete(2), ReadByGroupTypeResp, ReadByTypeResp,
    ReadByTypeRespWrapping, GattProcedureComplete, ConnUpdReq, DisconnComplete }
    \cup { AdvertisingReport(ADV_IND, PUBLIC_ADDR, a) : a \in WalkAddresses }

\* the address list as add_addr finds it
AddrList(s) ==
  [num_addrs |-> s.num_addrs, addr_list |-> s.addr_list, connectables |-> s.connectables,
   public_addrs |-> s.public_addrs]

\* what is recorded of the add_addr call that process_advertising_info makes on pckt
AddCall(s, pckt) ==
  LET info == get_advertising_info(pckt) IN
  [called |-> TRUE, performed |-> <<>>, newaddr |-> info.bdaddr,
   connectable |-> info.evt_type \in {ADV_IND, ADV_DIRECT_IND, ADV_SCAN_IND, SCAN_RSP},
   public_addr |-> info.bdaddr_type = PUBLIC_ADDR, before |-> AddrList(s)]

\* runs of the characteristic-discovery step since the device was added
WalkRuns(w) ==
  IF ~w.called \/ ~w.ret THEN walk_runs
  ELSE IF w.steps = <<1>> THEN 0
  ELSE IF w.steps = <<2>> THEN walk_runs + 1
  ELSE walk_runs

\* setup(): set_global_expectations()
Setup ==
  /\ pc = "setup"
  /\ InstallStatics(set_global_expectations(Engine))
  /\ pc' = "main_steps"
  /\ rp' = NoCall
  /\ body_call' = NoCall
  /\ UNCHANGED <<production_fired, num_added, step_log, walk_call, walk_runs, add_call>>

\* loop(): main_steps();
MainSteps ==
  /\ pc \in {"main_steps", "HCI_Process"}
  /\ \E env \in Envs : \E m \in { main_steps([Engine EXCEPT !.env = env]) } :
    /\ m.s.num_records <= MaxRecords
    /\ InstallStatics(m.s)
    /\ pc' = "HCI_Process"
    /\ step_log' = step_log \o [i \in 1..Len(m.ran) |->
                                 [step |-> m.ran[i],
                                  ended |-> ~(m.ran[i] = 2 /\ m.is_next_addr)]]
    /\ walk_call' = m.walk
    /\ walk_runs' = WalkRuns(m.walk)
    /\ add_call' = NoCall
    /\ rp' = NoCall
    /\ body_call' = NoCall
    /\ UNCHANGED <<production_fired, num_added>>

\* HCI_Process(): HCI_Event_CB(pckt) for an event received: run_current_protocol(pckt).
\* When an action of the dispatch hangs, run_production does not return: the protocol
\* function is not called, and the statics stay as they were when the action was
\* called.
HciEventOf(pckts) ==
  /\ pc = "HCI_Process"
  /\ \E pckt \in pckts, env \in Envs :
      \E r \in { run_production([Engine EXCEPT !.env = env], pckt) } :
      \E after \in { IF r.s.hung THEN r.s
                       ELSE after_production(r, NoStep) } :
      \E w \in { IF ~r.s.hung /\ body_called(r)
                      /\ get_current_protocol(r.s) = "gatt_walk_protocol"
                   THEN WalkCall(r.s, gatt_walk_protocol(r.s)) ELSE NoCall } :
    /\ after.num_records <= MaxRecords
    /\ InstallStatics(after)
    /\ walk_call' = w
    /\ walk_runs' = WalkRuns(w)
    /\ add_call' = IF ~r.s.hung /\ \E i \in 1..Len(r.fired) :
                                      r.fired[i].action = "process_advertising_info"
                     THEN AddCall([Engine EXCEPT !.env = env], pckt) ELSE NoCall
    /\ rp' = NoCall
    /\ body_call' = NoCall
    /\ UNCHANGED <<pc, production_fired, num_added, step_log>>

ScanEvent == HciEventOf(ScanPackets)

\* the sketch while it scans
NextScan ==
  \/ Setup
  \/ MainSteps
  \/ ScanEvent

SpecScan == Init /\ [][NextScan]_vars

WalkEvent == HciEventOf(WalkPackets)

\* the sketch while it scans and walks the devices found
NextWalk ==
  \/ Setup
  \/ MainSteps
  \/ WalkEvent

SpecWalk == Init /\ [][NextWalk]_vars

\* the application calls observation_protocol(), the passive scan the sketch names
\* as the alternative to directed_scan_protocol(): the call starts the protocol, or
\* runs the step the function has reached
ObservationProtocol ==
  /\ \E env \in Envs : \E b \in { observation_protocol([Engine EXCEPT !.env = env]) } :
       InstallStatics(b.s)
  /\ pc' = IF pc = "setup" THEN pc ELSE "HCI_Process"
  /\ walk_call' = NoCall
  /\ add_call' = NoCall
  /\ rp' = NoCall
  /\ body_call' = NoCall
  /\ UNCHANGED <<production_fired, num_added, step_log, walk_runs>>

\* instants of the clock around the 20 seconds of the observation
ObserveInstants == {0, 10 * SECONDS, 20 * SECONDS, 30 * SECONDS}

\* time passes while the sketch observes
ObserveTick ==
  \E t \in ObserveInstants :
    /\ t > millis
    /\ Api([Engine EXCEPT !.millis = t], 0)
    /\ UNCHANGED production_fired

\* the sketch while it observes
NextObserve ==
  \/ Setup
  \/ ObservationProtocol
  \/ ScanEvent
  \/ ObserveTick

SpecObserve == Init /\ [][NextObserve]_vars

\* the attributes and the contexts the application hands to the database
DbAttributes ==
  { [connection_handle |-> 2049, starting_handle |-> 6, ending_handle |-> 8] }

DbContexts ==
  { set_context(dbtype, 0, 2049) :
      dbtype \in {db_primary_service, db_included_service, db_characteristic} }

InitDeviceDb ==
  /\ Api(init_device_db(Engine), 0)
  /\ UNCHANGED production_fired

AddDeviceToDeviceDb ==
  \E device_addr \in WalkAddresses :
    /\ num_records < MaxRecords - 1
    /\ Api(add_device_to_device_db(Engine, device_addr).s, 0)
    /\ UNCHANGED production_fired

AddAttributeToDeviceDb ==
  \E attribute \in DbAttributes, attribute_context \in DbContexts :
    /\ num_records < MaxRecords - 1
    /\ Api(add_attribute_to_device_db(Engine, attribute, attribute_context).s, 0)
    /\ UNCHANGED production_fired

MarkProcessedInDeviceDb ==
  \E index \in 0..(MaxRecords - 2) :
    /\ Api(mark_processed_in_device_db(Engine, index), 0)
    /\ UNCHANGED production_fired

MarkUnprocessedInDeviceDb ==
  /\ Api(mark_unprocessed_in_device_db(Engine), 0)
  /\ UNCHANGED production_fired

MarkUnprocessedOfTypeInDeviceDb ==
  \E dbtype \in db_types :
    /\ Api(mark_unprocessed_of_type_in_device_db(Engine, dbtype), 0)
    /\ UNCHANGED production_fired

MarkUnprocessedOfTypeForDeviceInDeviceDb ==
  \E dbtype \in db_types, device_idx \in -1..(MaxRecords - 2) :
    /\ Api(mark_unprocessed_of_type_for_device_in_device_db(Engine, dbtype, device_idx), 0)
    /\ UNCHANGED production_fired

\* the database driven through its public functions
NextDb ==
  \/ InitDeviceDb
  \/ AddDeviceToDeviceDb
  \/ AddAttributeToDeviceDb
  \/ MarkProcessedInDeviceDb
  \/ MarkUnprocessedInDeviceDb
  \/ MarkUnprocessedOfTypeInDeviceDb
  \/ MarkUnprocessedOfTypeForDeviceInDeviceDb

SpecDb == Init /\ [][NextDb]_vars

-----------------------------------------------------------------------------
(* Properties of the step function of the sketch *)

\* the steps of the log that ran to their end before entry i
EndedBefore(log, i) == Cardinality({ j \in 1..(i - 1) : log[j].ended })

LastRun(log) == log[Len(log)]

\* C36: a call of the step function runs at most one step; the steps run in source order
\* (the step run after n steps have run to their end is step n); and once the last step has
\* run to its end no call runs a step.
C36_OneStepPerCallInOrder ==
  /\ [](\A i \in 1..Len(step_log) : step_log[i].step = EndedBefore(step_log, i))
  /\ [][ /\ Len(step_log') <= Len(step_log) + 1
         /\ (EndedBefore(step_log, Len(step_log) + 1) = NumSteps) => step_log' = step_log
       ]_vars

\* the four steps have run, the third one twice, and the counter is past the last
C36_Witness ==
  /\ ~undefined
  /\ main_steps_state = NumSteps
  /\ Len(step_log) = NumSteps + 1
  /\ \E i \in 1..Len(step_log) : ~step_log[i].ended

\* C37: the step counter changes only in a call in which a step ran to its end, and then
\* by one (as RETURN_STEP would change it); a call made while the SKIP_STEPS_IF guard holds
\* runs no step and leaves the counter; a step that ends in REPEAT_STEP_WHILE with its
\* condition true leaves the counter, so that the same step runs at the next call, and
\* advances it at the first run whose condition is false.
C37_CounterAdvancesOnlyAtStepEnd ==
  /\ [](RETURN_STEP(main_steps_state) = main_steps_state + 1)
  /\ [][ /\ (main_steps_state' # main_steps_state) =>
              /\ step_log' # step_log
              /\ LastRun(step_log').ended
              /\ main_steps_state' = main_steps_state + 1
         /\ protocol_running(Engine) =>
              /\ step_log' = step_log
              /\ main_steps_state' = main_steps_state
         /\ (step_log' # step_log) =>
              /\ LastRun(step_log').step = main_steps_state
              /\ LastRun(step_log').ended => main_steps_state' = main_steps_state + 1
              /\ ~LastRun(step_log').ended => main_steps_state' = main_steps_state
       ]_vars

\* the third step ran again after the walk it had started, found no address left and
\* advanced the counter
C37_Witness ==
  /\ ~undefined
  /\ main_steps_state = 3
  /\ num_records > 1
  /\ Len(step_log) >= 2
  /\ LastRun(step_log) = [step |-> 2, ended |-> TRUE]
  /\ step_log[Len(step_log) - 1] = [step |-> 2, ended |-> FALSE]

-----------------------------------------------------------------------------
(* Properties of rules without an action *)

\* the rules of a set that the event matches, by the matcher table or by their
\* condition, and those among them that have no action
Expected(set, pckt) ==
  { i \in 1..Len(set) :
      IF set[i].check_type = condition_check
        THEN CallPredicate(Engine, set[i].event_condition, pckt).ret
        ELSE MatcherTable(pckt, set[i].check_type, set[i].event_code) }

MatchingNoAction(set, pckt) == { i \in Expected(set, pckt) : set[i].event_action = NULL }

\* C38: a matching rule registered with NO_ACTION counts as fired: when the first
\* matching exclusive rule or a matching normal rule has no action, the dispatch
\* sets rule_matched, fires no global rule and, unless it finishes the production,
\* returns Advanced; an exclusive rule without action that matches first is the
\* only exclusive rule fired.
C38_NoActionRuleFires ==
  \A pckt \in Packets :
    IsEvent(pckt) =>
      LET r == run_production(Engine, pckt)
          ex == Expected(exclusive_rules, pckt)
          exclusive_first == ex # {} /\ Min(ex) \in MatchingNoAction(exclusive_rules, pckt)
      IN /\ exclusive_first =>
              FiredPositions(FiredIn(r.fired, "exclusive")) = << <<"exclusive", Min(ex)>> >>
         /\ \A i \in MatchingNoAction(rules, pckt) :
              \E k \in 1..Len(r.fired) :
                 r.fired[k] = [set |-> "normal", index |-> i, action |-> NULL]
         /\ (exclusive_first \/ MatchingNoAction(rules, pckt) # {}) =>
              /\ met_expectations(r.s)
              /\ FiredIn(r.fired, "global") = <<>>
              /\ r.result \in {Done, Advanced}

\* an exclusive rule without action fired on an event that a second exclusive rule
\* and a global rule match too: Advanced, rule_matched, nothing else fired
C38_Witness ==
  /\ rp.called
  /\ rp.result = Advanced
  /\ Len(rp.fired) = 1
  /\ rp.fired[1].set = "exclusive"
  /\ rp.fired[1].action = NULL
  /\ rule_matched
  /\ Cardinality(Matching(exclusive_rules, rp.pckt)) >= 2
  /\ Matching(global_rules, rp.pckt) # {}

-----------------------------------------------------------------------------
(* Properties of the walk *)

\* the database a call of gatt_walk_protocol found
FoundBy(w) == [Engine EXCEPT !.device_db = w.device_db, !.num_records = w.num_records]

\* the service records of a database, by their indices
Services(s) ==
  { i \in 0..(s.num_records - 1) :
      Entry(s.device_db, i, ZeroRecord).context.dbtype
        \in {db_primary_service, db_included_service} }

\* the records of the device at device_idx: those after it up to the next device
OfDevice(s, device_idx) ==
  { i \in (device_idx + 1)..(s.num_records - 1) :
      \A j \in (device_idx + 1)..i :
         Entry(s.device_db, j, ZeroRecord).context.dbtype # db_device }

Unprocessed(s, device_idx) ==
  { i \in Services(s) \cap OfDevice(s, device_idx) :
      ~Entry(s.device_db, i, ZeroRecord).processed }

\* the production of the characteristic-discovery step is configured
DiscoveringCharacteristics ==
  /\ get_current_protocol(Engine) = "gatt_walk_protocol"
  /\ \E i \in 1..Len(exclusive_rules) :
        exclusive_rules[i].event_code = EVT_BLUE_ATT_READ_BY_TYPE_RESP

\* a call of gatt_walk_protocol ran the characteristic-discovery step without aborting
RanCharacteristicStep == walk_call.called /\ walk_call.steps = <<2>> /\ walk_call.ret

\* C39: a run of the characteristic-discovery step of gatt_walk_protocol that does not abort
\* adds no record and marks exactly one record, an unprocessed service of the device, so
\* the unprocessed services of the device become one fewer; it repeats exactly when some
\* remain; the events of its production add no service record and change none; the step
\* runs at most once per service recorded for the device; and the recall of the next
\* unprocessed record of a type for a device returns -1 exactly when the number of them is 0.
C39_CharacteristicStepTerminates ==
  /\ []((RanCharacteristicStep /\ ~undefined) =>
          LET before == FoundBy(walk_call) IN
          /\ num_records = before.num_records
          /\ service_index \in Unprocessed(before, device_index)
          /\ device_db = Store(before.device_db, service_index,
                               [Entry(before.device_db, service_index, ZeroRecord)
                                  EXCEPT !.processed = TRUE],
                               ZeroRecord)
          /\ Cardinality(Unprocessed(Engine, device_index))
               = Cardinality(Unprocessed(before, device_index)) - 1
          /\ walk_call.action_ret =>
               gatt_walk_protocol_state
                 = (IF Unprocessed(Engine, device_index) # {} THEN 2 ELSE 3)
          /\ walk_runs <= Cardinality(Services(Engine) \cap OfDevice(Engine, device_index)))
  /\ [](\A dbtype \in db_types, device_idx \in -1..MaxRecords :
          (recall_first_unprocessed_of_type_for_device_in_device_db(Engine, dbtype, device_idx)
             = -1)
            <=> (num_unprocessed_of_type_for_device_in_device_db(Engine, dbtype, device_idx)
                   = 0))
  /\ [][ (DiscoveringCharacteristics /\ ~walk_call'.called /\ ~undefined') =>
           /\ {i \in 0..(num_records' - 1) :
                 Entry(device_db', i, ZeroRecord).context.dbtype
                   \in {db_primary_service, db_included_service}} = Services(Engine)
           /\ \A i \in Services(Engine) :
                 Entry(device_db', i, ZeroRecord) = Entry(device_db, i, ZeroRecord) ]_vars

\* the step ran a second time for a device with two services, after its production had
\* added a characteristic, and found nothing left to do
C39_Witness ==
  /\ RanCharacteristicStep /\ ~undefined
  /\ walk_runs = 2
  /\ gatt_walk_protocol_state = 3
  /\ \E i \in 0..(walk_call.num_records - 1) :
        Entry(walk_call.device_db, i, ZeroRecord).context.dbtype = db_characteristic

-----------------------------------------------------------------------------
(* Properties of the address list *)

\* the flag of an address already listed after it is reported again
Both(flag, reported) == IF reported /\ flag = 0 THEN -1 ELSE flag

\* C40: the address list holds no address twice; adding an address that is already in the
\* list adds no entry and changes only the flags of that address (connectable and public
\* become -1 when they were 0 and are now reported true), the flags of every other address
\* staying as they were.
C40_AddAddrUpdatesOwnFlagsOnly ==
  /\ [](\A i, j \in 0..(num_addrs - 1) :
          Entry(addr_list, i, ZeroAddr) = Entry(addr_list, j, ZeroAddr) => i = j)
  /\ [][ \A k \in 0..(num_addrs - 1) :
           (add_call'.called /\ add_call'.newaddr = Entry(addr_list, k, ZeroAddr)) =>
             /\ num_addrs' = num_addrs
             /\ \A i \in 0..(num_addrs - 1) :
                   Entry(addr_list', i, ZeroAddr) = Entry(addr_list, i, ZeroAddr)
             /\ Entry(connectables', k, 0) = Both(Entry(connectables, k, 0), add_call'.connectable)
             /\ Entry(public_addrs', k, 0) = Both(Entry(public_addrs, k, 0), add_call'.public_addr)
             /\ \A other \in 0..(num_addrs - 1) :
                  other # k => /\ Entry(connectables', other, 0) = Entry(connectables, other, 0)
                               /\ Entry(public_addrs', other, 0) = Entry(public_addrs, other, 0)
       ]_vars

====
